---- MODULE Spec2Model ----
(***************************************************************************)
(* Model of the background preprocessing manager of the Ansikten frontend *)
(* (PreprocessingManager): the pending queue, the parallel pipeline runs, *)
(* and the rolling window that pauses and resumes admission.              *)
(*                                                                         *)
(* JavaScript runs every synchronous section atomically, so one action is *)
(* one public call of the manager, or one continuation of a pipeline run  *)
(* after an awaited backend request has settled (together with the        *)
(* promise reactions that follow it without any further await).           *)
(***************************************************************************)
EXTENDS Integers, Sequences, FiniteSets, Bags, TLC

(***************************************************************************)
(* Bounds of the model.                                                    *)
(***************************************************************************)
NumPaths == 3
MaxTracked == 3
MaxWorkersCfg == 2
MaxWindow == 2
MaxDone == 2
MaxOrphans == 1

Paths == 1..NumPaths
NoPath == 0

\* PreprocessingStatus enum
PENDING == "pending"
HASHING == "hashing"
NEF_CONVERTING == "nef_converting"
DETECTING_FACES == "detecting_faces"
GENERATING_THUMBNAILS == "generating_thumbnails"
COMPLETED == "completed"
ERROR == "error"
FILE_NOT_FOUND == "file_not_found"

\* The content digest the backend answers for a path (a hex string in the
\* program; here one digest per path, distinct from every path number).
FileHash(p) == NumPaths + p

\* _isRawFile: decided by the file extension; odd paths carry a RAW extension.
_isRawFile(p) == p % 2 = 1

VARIABLES
  queue,          \* this.queue: pending paths, head first
  processing,     \* this.processing: path -> status (in flight or terminal error)
  completed,      \* this.completed: path -> hash
  activeWorkers,  \* this.activeWorkers
  isPaused,       \* this.isPaused
  doneItems,      \* this.doneItems: a Set, kept in insertion order
  doneCount,      \* this.doneCount
  maxWorkers,     \* this.maxWorkers
  enabled,        \* this.enabled
  steps,          \* this.steps
  rollingWindow,  \* this.rollingWindow
  runs,           \* the pending _processFile promises, a bag of run records
  sincePause,     \* history: ready entries marked done since the current pause began
  plainSub,       \* history: queued paths submitted without priority while running
  mustPrecede,    \* history: pairs <<a, b>> of queued paths, a owed a start before b
  fileQueue,               \* FileQueueModule: the queue state, the paths of its items
  preprocessingStatus,     \* FileQueueModule: path -> the hash of its status entry
  preprocessingStatusRef,  \* FileQueueModule: preprocessingStatus as of the last render
  renderPending,           \* FileQueueModule: state was set and not yet rendered
  priorityHashesTimer,     \* FileQueueModule: <<>> or <<the digests the pending timer sends>>
  missingFiles,            \* FileQueueModule: missingFilesRef, with its pending timer
  watchedFiles,            \* FileQueueModule: watchedFilesRef, the paths being watched
  priorityHashes,          \* backend: the priority set it was sent last
  cacheEntries,            \* backend cache store: digest -> completed_at
  cacheClock,              \* backend cache store: the clock that stamps completed_at
  eviction,                \* backend cache store: the eviction tick in progress
  ws,                      \* APIClient: this.ws, by the state of the socket it refers to
  detached,                \* APIClient: sockets this.ws no longer refers to, by state
  isConnecting,            \* APIClient: this.isConnecting
  _connected,              \* APIClient: this._connected, the state told to the listeners
  _shouldReconnect,        \* APIClient: this._shouldReconnect
  reconnectAttempts,       \* APIClient: this.reconnectAttempts
  reconnectTimers,         \* APIClient: reconnect timers set and not yet fired
  lastDelay,               \* history: the delay of the reconnect timer set last
  manualOff,               \* history: disconnected for good, no connect call since
  itemStatus,              \* FileQueueModule: path -> item.status, of the items not 'pending'
  currentIndex,            \* FileQueueModule: currentIndex (NoIndex: -1)
  currentFile,             \* FileQueueModule: currentFileRef.current (NoPath: null)
  skipped,                 \* history: the files left by Skip since the last other command
  names,                   \* nameFormatter: the names given to resolveFirstNameCollisions
  result,                  \* nameFormatter: the Map it returned, name -> entry
  directoryWatchers,       \* main process: dir -> {watcher, files}
  fileToDirectory,         \* main process: filePath -> dir
  watchers,                \* the FSWatchers made by fs.watch, each with its dir and state
  existing,                \* the file system: the watchable files that exist
  sent,                    \* main process: the message sent last to the renderer
  cache,                   \* ThumbnailCache: the keys of this.cache
  accessOrder,             \* ThumbnailCache: this.accessOrder
  fetching,                \* ThumbnailCache: key -> the getThumbnail calls awaiting its fetch
  recency,                 \* history: the cached keys, the least recently used first
  lastEvicted,             \* history: <<>> or <<the key evicted last, the LRU key then>>
  process,                 \* BackendService: this.process, a child's number (NoChild: null)
  childExited,             \* BackendService: this.childExited
  children,                \* the backend processes spawned, by state
  calls                    \* the calls of start(): where each is, its i, the child it spawned

progVars == <<queue, processing, completed, activeWorkers, isPaused, doneItems,
              doneCount, maxWorkers, enabled, steps, rollingWindow, runs>>
histVars == <<sincePause, plainSub, mustPrecede>>
fqVars == <<fileQueue, preprocessingStatus, preprocessingStatusRef, renderPending,
            priorityHashesTimer, missingFiles, watchedFiles, priorityHashes>>
storeVars == <<cacheEntries, cacheClock, eviction>>
clientVars == <<ws, detached, isConnecting, _connected, _shouldReconnect, reconnectAttempts,
                reconnectTimers, lastDelay, manualOff>>
reviewVars == <<itemStatus, currentIndex, currentFile, skipped>>
nameVars == <<names, result>>
watchVars == <<directoryWatchers, fileToDirectory, watchers, existing, sent>>
thumbVars == <<cache, accessOrder, fetching, recency, lastEvicted>>
backendVars == <<process, childExited, children, calls>>
extVars == <<reviewVars, nameVars, watchVars, thumbVars, backendVars>>
otherVars == <<fqVars, storeVars, clientVars, extVars>>
vars == <<progVars, histVars, otherVars>>

(***************************************************************************)
(* Helpers on sequences and maps.                                          *)
(***************************************************************************)
Range(s) == {s[i] : i \in 1..Len(s)}
Without(s, x) == SelectSeq(s, LAMBDA y : y # x)
IndexOf(s, x) == IF x \in Range(s) THEN CHOOSE i \in 1..Len(s) : s[i] = x ELSE 0
MapSet(f, k, v) == [x \in (DOMAIN f) \cup {k} |-> IF x = k THEN v ELSE f[x]]
MapDelete(f, k) == [x \in (DOMAIN f) \ {k} |-> f[x]]
EmptyMap == [x \in {} |-> 0]
Min(a, b) == IF a < b THEN a ELSE b
Max(a, b) == IF a > b THEN a ELSE b

\* The manager as one record, so that the methods compose as functions.
M == [queue |-> queue, processing |-> processing, completed |-> completed,
      activeWorkers |-> activeWorkers, isPaused |-> isPaused,
      doneItems |-> doneItems, doneCount |-> doneCount,
      maxWorkers |-> maxWorkers, enabled |-> enabled, steps |-> steps,
      rollingWindow |-> rollingWindow, runs |-> runs,
      ev |-> <<>>, started |-> <<>>]

Event(type, path, status, count, queueLength, hashes) ==
  [type |-> type, path |-> path, status |-> status, count |-> count,
   queueLength |-> queueLength, hashes |-> hashes]

\* emit(event, data)
emit(m, e) == [m EXCEPT !.ev = Append(@, e)]

(***************************************************************************)
(* The rolling window.                                                     *)
(***************************************************************************)
getReadyCount(m) ==
  Cardinality({p \in DOMAIN m.completed : p \notin Range(m.doneItems)})

\* (variant: the watermark compared with > instead of >=)
shouldPauseAbove(m) ==
  /\ getReadyCount(m) > m.rollingWindow.minQueueBuffer
  /\ Len(m.queue) > 0

shouldPause(m) ==
  /\ getReadyCount(m) >= m.rollingWindow.minQueueBuffer
  /\ Len(m.queue) > 0

\* (variant: the resume watermark compared with > instead of >=)
shouldResumeAbove(m) ==
  m.isPaused /\ m.doneCount > m.rollingWindow.resumeThreshold

shouldResume(m) ==
  m.isPaused /\ m.doneCount >= m.rollingWindow.resumeThreshold

\* (variant: the pause is not announced)
_pauseProcessingSilent(m) ==
  IF m.isPaused THEN m ELSE [m EXCEPT !.isPaused = TRUE]

_pauseProcessing(m) ==
  IF m.isPaused THEN m
  ELSE emit([m EXCEPT !.isPaused = TRUE],
            Event("paused", NoPath, "", getReadyCount(m), Len(m.queue), <<>>))

\* The hashes of the paths of s that still have a completed entry, in order.
RECURSIVE HashesOf(_, _)
HashesOf(s, comp) ==
  IF s = <<>> THEN <<>>
  ELSE IF Head(s) \in DOMAIN comp
       THEN <<comp[Head(s)]>> \o HashesOf(Tail(s), comp)
       ELSE HashesOf(Tail(s), comp)

_clearDoneItems(m) ==
  LET toRemove == Min(m.doneCount, m.rollingWindow.resumeThreshold)
      removed == Min(toRemove, Len(m.doneItems))
      gone == SubSeq(m.doneItems, 1, removed)
      removedHashes == HashesOf(gone, m.completed)
      m1 == [m EXCEPT
               !.completed = [x \in (DOMAIN @) \ Range(gone) |-> @[x]],
               !.doneItems = SubSeq(@, removed + 1, Len(@)),
               !.doneCount = Max(0, @ - removed)]
  IN emit(m1, Event("cache-cleared", NoPath, "", removed, 0, removedHashes))

(***************************************************************************)
(* A pipeline run.                                                         *)
(***************************************************************************)
_updateStatus(m, p, status) ==
  emit([m EXCEPT !.processing = MapSet(@, p, status)],
       Event("status-change", p, status, 0, 0, <<>>))

_completeFile(m, p, fileHash) ==
  emit([m EXCEPT !.processing = MapDelete(@, p),
                 !.completed = MapSet(@, p, fileHash)],
       Event("completed", p, "", 0, 0, <<fileHash>>))

\* A pending _processFile: the await it is at, the cached artifacts the probe
\* reported (hasFace, hasThumb), actualStatus.has_nef_conversion (hasNef) and
\* the hasErrors flag.
NewRun(p) == [path |-> p, pc |-> "hash", hasNef |-> FALSE, hasFace |-> FALSE,
              hasThumb |-> FALSE, hasErrors |-> FALSE]

\* The body shared by the loop of _processNext and by _forceProcessFile: take a
\* worker, track the path, and run _processFile up to its first await.
StartRun(m, p) ==
  LET m1 == [m EXCEPT !.activeWorkers = @ + 1,
                      !.processing = MapSet(@, p, HASHING),
                      !.started = Append(@, p)]
      m2 == emit(m1, Event("status-change", p, HASHING, 0, 0, <<>>))
      m3 == _updateStatus(m2, p, HASHING)
  IN [m3 EXCEPT !.runs = @ (+) SetToBag({NewRun(p)})]

\* (variant: the loop takes the newest pending path instead of the oldest)
RECURSIVE _dispatchLoopNewest(_)
_dispatchLoopNewest(m) ==
  IF m.activeWorkers < m.maxWorkers /\ Len(m.queue) > 0
  THEN _dispatchLoopNewest(StartRun([m EXCEPT !.queue = SubSeq(@, 1, Len(@) - 1)],
                                    m.queue[Len(m.queue)]))
  ELSE m

RECURSIVE _dispatchLoop(_)
_dispatchLoop(m) ==
  IF m.activeWorkers < m.maxWorkers /\ Len(m.queue) > 0
  THEN _dispatchLoop(StartRun([m EXCEPT !.queue = Tail(@)], Head(m.queue)))
  ELSE m

\* (variant: no max-ready gate)
_processNextNoCap(m) ==
  IF shouldPause(m) /\ ~m.isPaused THEN _pauseProcessing(m)
  ELSE IF m.isPaused THEN m
  ELSE _dispatchLoop(m)

_processNext(m) ==
  IF shouldPause(m) /\ ~m.isPaused THEN _pauseProcessing(m)
  ELSE IF m.isPaused THEN m
  ELSE IF getReadyCount(m) >= m.rollingWindow.maxReadyItems THEN m
  ELSE _dispatchLoop(m)

_resumeProcessing(m) ==
  IF ~m.isPaused THEN m
  ELSE LET m1 == _clearDoneItems(m)
           m2 == emit([m1 EXCEPT !.isPaused = FALSE],
                      Event("resumed", NoPath, "", 0, 0, <<>>))
       IN _processNext(m2)

_forceProcessFile(m, p) ==
  IF IndexOf(m.queue, p) = 0 THEN m
  ELSE StartRun([m EXCEPT !.queue = Without(@, p)], p)

(***************************************************************************)
(* The public calls.                                                       *)
(***************************************************************************)
\* (variant: a completed path is not skipped)
addToQueueRecompletes(m, p, priority, force) ==
  IF ~m.enabled THEN m
  ELSE IF p \in Range(m.queue) \/ p \in DOMAIN m.processing THEN m
  ELSE LET m1 == [m EXCEPT !.queue = IF priority THEN <<p>> \o @ ELSE Append(@, p)]
       IN IF force /\ m1.isPaused THEN _forceProcessFile(m1, p)
          ELSE _processNext(m1)

\* (variant: priority items go to the tail like the others)
addToQueueNoFront(m, p, priority, force) ==
  IF ~m.enabled THEN m
  ELSE IF \/ p \in Range(m.queue)
          \/ p \in DOMAIN m.processing
          \/ p \in DOMAIN m.completed
       THEN m
  ELSE LET m1 == [m EXCEPT !.queue = Append(@, p)]
       IN IF force /\ m1.isPaused THEN _forceProcessFile(m1, p)
          ELSE _processNext(m1)

addToQueue(m, p, priority, force) ==
  IF ~m.enabled THEN m
  ELSE IF \/ p \in Range(m.queue)
          \/ p \in DOMAIN m.processing
          \/ p \in DOMAIN m.completed
       THEN m
  ELSE LET m1 == [m EXCEPT !.queue = IF priority THEN <<p>> \o @ ELSE Append(@, p)]
       IN IF force /\ m1.isPaused THEN _forceProcessFile(m1, p)
          ELSE _processNext(m1)

\* addMultipleToQueue: filePaths.forEach(path => this.addToQueue(path))
RECURSIVE addMultipleToQueue(_, _)
addMultipleToQueue(m, filePaths) ==
  IF filePaths = <<>> THEN m
  ELSE addMultipleToQueue(addToQueue(m, Head(filePaths), FALSE, FALSE), Tail(filePaths))

removeFromQueue(m, p) == [m EXCEPT !.queue = Without(@, p)]

removeFile(m, p) ==
  LET hasHash == p \in DOMAIN m.completed
      wasDone == p \in Range(m.doneItems)
      m1 == [m EXCEPT !.completed = MapDelete(@, p),
                      !.doneItems = Without(@, p),
                      !.processing = MapDelete(@, p)]
      m2 == removeFromQueue(m1, p)
      m3 == IF wasDone /\ m2.doneCount > 0
            THEN [m2 EXCEPT !.doneCount = @ - 1] ELSE m2
  IN IF hasHash
     THEN emit(m3, Event("file-removed", p, "", 0, 0, <<m.completed[p]>>))
     ELSE m3

clearCompleted(m) == [m EXCEPT !.completed = EmptyMap]

markDone(m, p) ==
  IF p \notin DOMAIN m.completed THEN m
  ELSE LET m1 == [m EXCEPT
                    !.doneItems = IF p \in Range(@) THEN @ ELSE Append(@, p),
                    !.doneCount = @ + 1]
       IN IF shouldResume(m1) THEN _resumeProcessing(m1) ELSE m1

\* An optional field of a config object: no value, or one value.
Opt(S) == {{}} \cup {{x} : x \in S}
OrElse(o, old) == IF o = {} THEN old ELSE CHOOSE x \in o : TRUE

updateConfig(m, config) ==
  [m EXCEPT
     !.maxWorkers = OrElse(config.maxWorkers, @),
     !.enabled = OrElse(config.enabled, @),
     !.steps = [nefConversion |-> OrElse(config.nefConversion, @.nefConversion),
                faceDetection |-> OrElse(config.faceDetection, @.faceDetection),
                thumbnails |-> OrElse(config.thumbnails, @.thumbnails)],
     !.rollingWindow =
        [maxReadyItems |-> OrElse(config.maxReadyItems, @.maxReadyItems),
         minQueueBuffer |-> OrElse(config.minQueueBuffer, @.minQueueBuffer),
         resumeThreshold |-> OrElse(config.resumeThreshold, @.resumeThreshold)]]

\* (variant: stop also forgets the files being processed)
stopForgetsRuns(m) == [m EXCEPT !.queue = <<>>, !.processing = EmptyMap]

stop(m) == [m EXCEPT !.queue = <<>>]

(***************************************************************************)
(* The continuations of _processFile after each awaited backend request.   *)
(***************************************************************************)
RunGone(m, r) == [m EXCEPT !.runs = @ (-) SetToBag({r})]
RunMoves(m, r, r2) == [m EXCEPT !.runs = (@ (-) SetToBag({r})) (+) SetToBag({r2})]

\* .finally of the promise chain
Finally(m) == _processNext([m EXCEPT !.activeWorkers = @ - 1])

\* .catch of the promise chain, for a run whose _processFile threw
Catch(m, r) ==
  LET m1 == [m EXCEPT !.processing = MapSet(@, r.path, ERROR)]
  IN Finally(RunGone(emit(m1, Event("error", r.path, "", 0, 0, <<>>)), r))

\* (variant: the error of a failed step is also thrown to .catch)
FinishThrows(m, r) ==
  IF r.hasErrors
  THEN LET m1 == [m EXCEPT !.processing = MapSet(@, r.path, ERROR)]
       IN Catch(emit(m1, Event("error", r.path, "", 0, 0, <<>>)), r)
  ELSE Finally(RunGone(_completeFile(m, r.path, FileHash(r.path)), r))

\* The end of _processFile: complete, or error when a step failed.
Finish(m, r) ==
  IF r.hasErrors
  THEN LET m1 == [m EXCEPT !.processing = MapSet(@, r.path, ERROR)]
       IN Finally(RunGone(emit(m1, Event("error", r.path, "", 0, 0, <<>>)), r))
  ELSE Finally(RunGone(_completeFile(m, r.path, FileHash(r.path)), r))

\* Step 5: thumbnails (if enabled and not cached)
Step5(m, r) ==
  IF m.steps.thumbnails /\ ~r.hasThumb
  THEN RunMoves(_updateStatus(m, r.path, GENERATING_THUMBNAILS), r,
                [r EXCEPT !.pc = "thumbnails"])
  ELSE Finish(m, r)

\* (variant: face detection is requested whether or not it is cached)
Step4Always(m, r) ==
  IF m.steps.faceDetection
  THEN RunMoves(_updateStatus(m, r.path, DETECTING_FACES), r,
                [r EXCEPT !.pc = "faces"])
  ELSE Step5(m, r)

\* Step 4: face detection (if enabled and not cached)
Step4(m, r) ==
  IF m.steps.faceDetection /\ ~r.hasFace
  THEN RunMoves(_updateStatus(m, r.path, DETECTING_FACES), r,
                [r EXCEPT !.pc = "faces"])
  ELSE Step5(m, r)

\* Step 3: NEF conversion (if needed and enabled)
Step3(m, r, hasNef) ==
  IF m.steps.nefConversion /\ _isRawFile(r.path) /\ ~hasNef
  THEN RunMoves(_updateStatus(m, r.path, NEF_CONVERTING), r,
                [r EXCEPT !.pc = "nef"])
  ELSE Step4(m, r)

\* What /api/preprocessing/hash can answer.
HashResults == {"ok", "404", "error"}
\* (variant: a missing file is rethrown like any other hashing failure)
AfterHashRethrows(m, r, res) ==
  IF res = "ok" THEN RunMoves(m, r, [r EXCEPT !.pc = "check"])
  ELSE Catch(m, r)

AfterHash(m, r, res) ==
  IF res = "ok" THEN RunMoves(m, r, [r EXCEPT !.pc = "check"])
  ELSE IF res = "404"
  THEN LET m1 == [m EXCEPT !.processing = MapSet(@, r.path, FILE_NOT_FOUND)]
       IN Finally(RunGone(emit(m1, Event("file-not-found", r.path, "", 0, 0, <<>>)), r))
  ELSE Catch(m, r)

\* What /api/preprocessing/check can answer: a failure, or the cached artifacts.
CheckResults == [ok : BOOLEAN, nef : BOOLEAN, face : BOOLEAN, thumb : BOOLEAN]
AfterCheck(m, r, res) ==
  IF ~res.ok THEN Catch(m, r)
  ELSE IF res.nef /\ res.face /\ res.thumb
  THEN Finally(RunGone(_completeFile(m, r.path, FileHash(r.path)), r))
  ELSE LET r2 == [r EXCEPT !.hasNef = res.nef, !.hasFace = res.face,
                            !.hasThumb = res.thumb]
       IN Step3(RunMoves(m, r, r2), r2, res.nef)

\* What a stage request can answer: a result status, or a failure.
StageResults == {"completed", "cached", "error", "throw"}
\* (variant: a failed conversion marks the run as failed)
AfterNefFatal(m, r, res) ==
  IF res \in {"completed", "cached"}
  THEN LET r2 == [r EXCEPT !.hasNef = TRUE] IN Step4(RunMoves(m, r, r2), r2)
  ELSE LET r2 == [r EXCEPT !.hasErrors = TRUE] IN Step4(RunMoves(m, r, r2), r2)

AfterNef(m, r, res) ==
  IF res \in {"completed", "cached"}
  THEN LET r2 == [r EXCEPT !.hasNef = TRUE] IN Step4(RunMoves(m, r, r2), r2)
  ELSE Step4(m, r)

AfterFaces(m, r, res) ==
  IF res \in {"error", "throw"}
  THEN LET r2 == [r EXCEPT !.hasErrors = TRUE] IN Step5(RunMoves(m, r, r2), r2)
  ELSE Step5(m, r)

AfterThumbnails(m, r, res) ==
  IF res \in {"error", "throw"}
  THEN LET r2 == [r EXCEPT !.hasErrors = TRUE] IN Finish(RunMoves(m, r, r2), r2)
  ELSE Finish(m, r)

(***************************************************************************)
(* The steps of the state machine.  A step is one public call, or one      *)
(* continuation of a run; m is the manager after it, with the events it    *)
(* emitted (m.ev) and the runs it started (m.started).                     *)
(***************************************************************************)
Step(name, path, priority, force, res, m) ==
  [name |-> name, path |-> path, priority |-> priority, force |-> force,
   res |-> res, m |-> m]

StepValues == BOOLEAN
WindowValues == 1..MaxWindow
WorkerValues == 1..MaxWorkersCfg

Untracked(p) ==
  /\ p \notin Range(queue)
  /\ p \notin DOMAIN processing
  /\ p \notin DOMAIN completed

InFlight(p) == \E r \in BagToSet(runs) : r.path = p

\* The callers submit while fewer than MaxTracked paths are pending or in flight.
AddSteps ==
  IF Len(queue) + BagCardinality(runs) < MaxTracked
  THEN {Step("addToQueue", p, priority, force, "", addToQueue(M, p, priority, force)) :
          p \in Paths, priority \in BOOLEAN, force \in BOOLEAN}
  ELSE {}

RemoveFromQueueSteps ==
  {Step("removeFromQueue", p, FALSE, FALSE, "", removeFromQueue(M, p)) : p \in Paths}

\* removeFile of a path that has no run in flight
RemoveFileSteps ==
  {Step("removeFile", p, FALSE, FALSE, "", removeFile(M, p)) :
     p \in {x \in Paths : ~InFlight(x)}}

\* removeFile of a path whose run is in flight: the run goes on without its entry
RemoveInFlightSteps ==
  IF BagCardinality(runs) <= MaxOrphans
  THEN {Step("removeFile", p, FALSE, FALSE, "", removeFile(M, p)) :
          p \in {x \in Paths : InFlight(x)}}
  ELSE {}

ClearCompletedSteps ==
  {Step("clearCompleted", NoPath, FALSE, FALSE, "", clearCompleted(M))}

MarkDoneSteps ==
  IF doneCount < MaxDone /\ sincePause < MaxDone
  THEN {Step("markDone", p, FALSE, FALSE, "", markDone(M, p)) : p \in Paths}
  ELSE {}

NoConfig ==
  [maxWorkers |-> {}, enabled |-> {}, nefConversion |-> {}, faceDetection |-> {},
   thumbnails |-> {}, maxReadyItems |-> {}, minQueueBuffer |-> {},
   resumeThreshold |-> {}]

\* The config objects passed to updateConfig: one setting changed per call (a
\* call that changes several is the same as one call for each).
WorkerConfigs == {[NoConfig EXCEPT !.maxWorkers = {w}] : w \in WorkerValues}
EnabledConfigs == {[NoConfig EXCEPT !.enabled = {b}] : b \in BOOLEAN}
StepConfigs ==
  {[NoConfig EXCEPT !.nefConversion = {b}] : b \in StepValues}
  \cup {[NoConfig EXCEPT !.faceDetection = {b}] : b \in StepValues}
  \cup {[NoConfig EXCEPT !.thumbnails = {b}] : b \in StepValues}
WindowConfigs ==
  {[NoConfig EXCEPT !.maxReadyItems = {n}] : n \in WindowValues}
  \cup {[NoConfig EXCEPT !.minQueueBuffer = {n}] : n \in WindowValues}
  \cup {[NoConfig EXCEPT !.resumeThreshold = {n}] : n \in WindowValues}

UpdateConfigSteps(configs) ==
  {Step("updateConfig", NoPath, FALSE, FALSE, "", updateConfig(M, config)) :
     config \in configs}

StopSteps == {Step("stop", NoPath, FALSE, FALSE, "", stop(M))}

RunsAt(pc) == {r \in BagToSet(runs) : r.pc = pc}

HashSteps ==
  {Step("hash", r.path, FALSE, FALSE, res, AfterHash(M, r, res)) :
     r \in RunsAt("hash"), res \in HashResults}

CheckTag(res) ==
  IF ~res.ok THEN "failed"
  ELSE IF res.nef /\ res.face /\ res.thumb THEN "cached" ELSE "partial"

CheckSteps(results) ==
  {Step("check", r.path, FALSE, FALSE, CheckTag(res), AfterCheck(M, r, res)) :
     r \in RunsAt("check"), res \in results}

NefSteps ==
  {Step("nef", r.path, FALSE, FALSE, res, AfterNef(M, r, res)) :
     r \in RunsAt("nef"), res \in StageResults}

FacesSteps ==
  {Step("faces", r.path, FALSE, FALSE, res, AfterFaces(M, r, res)) :
     r \in RunsAt("faces"), res \in StageResults}

ThumbnailsSteps ==
  {Step("thumbnails", r.path, FALSE, FALSE, res, AfterThumbnails(M, r, res)) :
     r \in RunsAt("thumbnails"), res \in StageResults}

(***************************************************************************)
(* History kept for the claims about the resume count and the start order. *)
(***************************************************************************)
Accepted(s) == s.name = "addToQueue" /\ enabled /\ Untracked(s.path)
PlainAccepted(s) == Accepted(s) /\ ~s.priority /\ ~isPaused

SincePauseAfter(s) ==
  IF ~isPaused THEN 0
  ELSE IF /\ s.name = "markDone"
          /\ s.path \in DOMAIN completed
          /\ s.path \notin Range(doneItems)
       THEN sincePause + 1
       ELSE sincePause

PlainAfter(s) == IF PlainAccepted(s) THEN plainSub \cup {s.path} ELSE plainSub

\* A priority submission is owed a start before every path pending at that
\* moment; a plain submission made while running comes after the earlier ones.
PrecedeAfter(s) ==
  IF Accepted(s) /\ s.priority
  THEN mustPrecede \cup {<<s.path, q>> : q \in Range(queue)}
  ELSE IF PlainAccepted(s)
  THEN mustPrecede \cup {<<q, s.path>> : q \in plainSub}
  ELSE mustPrecede

CommitManager(s) ==
  /\ queue' = s.m.queue
  /\ processing' = s.m.processing
  /\ completed' = s.m.completed
  /\ activeWorkers' = s.m.activeWorkers
  /\ isPaused' = s.m.isPaused
  /\ doneItems' = s.m.doneItems
  /\ doneCount' = s.m.doneCount
  /\ maxWorkers' = s.m.maxWorkers
  /\ enabled' = s.m.enabled
  /\ steps' = s.m.steps
  /\ rollingWindow' = s.m.rollingWindow
  /\ runs' = s.m.runs
  /\ sincePause' = SincePauseAfter(s)
  /\ plainSub' = PlainAfter(s) \cap Range(s.m.queue)
  /\ mustPrecede' = {pr \in PrecedeAfter(s) :
                       pr[1] \in Range(s.m.queue) /\ pr[2] \in Range(s.m.queue)}

\* A step of the manager on its own: the other components stay as they are.
Commit(s) == CommitManager(s) /\ UNCHANGED otherVars

\* The file queue module as mounted: nothing queued, the first render pending.
InitFileQueue ==
  /\ fileQueue = <<>>
  /\ preprocessingStatus = EmptyMap
  /\ preprocessingStatusRef = EmptyMap
  /\ renderPending = TRUE
  /\ priorityHashesTimer = <<>>
  /\ missingFiles = {}
  /\ watchedFiles = {}
  /\ priorityHashes = {}

\* No eviction tick in progress: nothing decided, nothing left to delete.
NoEviction == [list |-> <<>>, decided |-> <<>>, priority |-> {}, entries |-> {}]

\* The backend's cache store, empty.
InitCacheStore ==
  /\ cacheEntries = EmptyMap
  /\ cacheClock = 0
  /\ eviction = NoEviction

NoSockets == [connecting |-> 0, open |-> 0, closing |-> 0]

\* The API client as constructed.
InitClient ==
  /\ ws = "null"
  /\ detached = NoSockets
  /\ isConnecting = FALSE
  /\ _connected = FALSE
  /\ _shouldReconnect = TRUE
  /\ reconnectAttempts = 0
  /\ reconnectTimers = 0
  /\ lastDelay = 0
  /\ manualOff = FALSE

NoIndex == 0

\* The file queue module's review state as mounted: nothing loaded.
InitReview ==
  /\ itemStatus = EmptyMap
  /\ currentIndex = NoIndex
  /\ currentFile = NoPath
  /\ skipped = {}

\* resolveFirstNameCollisions not called yet.
InitNames ==
  /\ names = <<>>
  /\ result = EmptyMap

NumWatched == 3
MaxWatchers == 3
\* The files the renderer asks to watch.
WatchedPaths == 1..NumWatched

\* The main process as started: nothing watched; the files exist.
InitWatch ==
  /\ directoryWatchers = EmptyMap
  /\ fileToDirectory = EmptyMap
  /\ watchers = <<>>
  /\ existing = WatchedPaths
  /\ sent = <<>>

NumKeys == 3
\* The thumbnails asked for, by cache key.
Keys == 1..NumKeys

\* new ThumbnailCache(maxSize)
InitThumbnails ==
  /\ cache = {}
  /\ accessOrder = <<>>
  /\ fetching = [k \in Keys |-> 0]
  /\ recency = <<>>
  /\ lastEvicted = <<>>

NoChild == 0

\* new BackendService()
InitBackend ==
  /\ process = NoChild
  /\ childExited = FALSE
  /\ children = <<>>
  /\ calls = <<>>

InitExt == InitReview /\ InitNames /\ InitWatch /\ InitThumbnails /\ InitBackend

InitOthers == InitFileQueue /\ InitCacheStore /\ InitClient /\ InitExt

(***************************************************************************)
(* The manager with a backend whose cache probe either fails or reports    *)
(* every artifact present, so that a run has two awaits (hash and probe),  *)
(* and with files removed only while no run is in flight for them.         *)
(***************************************************************************)
DefaultSteps == [nefConversion |-> TRUE, faceDetection |-> TRUE, thumbnails |-> TRUE]

Init ==
  /\ queue = <<>>
  /\ processing = EmptyMap
  /\ completed = EmptyMap
  /\ activeWorkers = 0
  /\ isPaused = FALSE
  /\ doneItems = <<>>
  /\ doneCount = 0
  /\ maxWorkers \in WorkerValues
  /\ enabled \in BOOLEAN
  /\ steps = DefaultSteps
  /\ rollingWindow \in [maxReadyItems : WindowValues, minQueueBuffer : WindowValues,
                        resumeThreshold : WindowValues]
  /\ runs = EmptyBag
  /\ sincePause = 0
  /\ plainSub = {}
  /\ mustPrecede = {}
  /\ InitOthers

CachedOrFailed == {res \in CheckResults : CheckTag(res) # "partial"}

ManagerSteps ==
  AddSteps \cup RemoveFromQueueSteps \cup RemoveFileSteps \cup ClearCompletedSteps
  \cup MarkDoneSteps
  \cup UpdateConfigSteps(WorkerConfigs \cup EnabledConfigs \cup WindowConfigs)
  \cup StopSteps \cup HashSteps \cup CheckSteps(CachedOrFailed)

AddToQueue == \E s \in AddSteps : Commit(s)
RemoveFromQueue == \E s \in RemoveFromQueueSteps : Commit(s)
RemoveFile == \E s \in RemoveFileSteps : Commit(s)
ClearCompleted == \E s \in ClearCompletedSteps : Commit(s)
MarkDone == \E s \in MarkDoneSteps : Commit(s)
UpdateConfig ==
  \E s \in UpdateConfigSteps(WorkerConfigs \cup EnabledConfigs \cup WindowConfigs) :
    Commit(s)
Stop == \E s \in StopSteps : Commit(s)
HashSettled == \E s \in HashSteps : Commit(s)
CheckSettled == \E s \in CheckSteps(CachedOrFailed) : Commit(s)

Next ==
  \/ AddToQueue
  \/ RemoveFromQueue
  \/ RemoveFile
  \/ ClearCompleted
  \/ MarkDone
  \/ UpdateConfig
  \/ Stop
  \/ HashSettled
  \/ CheckSettled

Spec == Init /\ [][Next]_vars

(***************************************************************************)
(* The file queue module, the caller of the manager: its listener of the   *)
(* file-not-found event, and its rename and force-reprocess handlers.      *)
(***************************************************************************)
\* handleFileNotFound: runs inside emit('file-not-found'), forgets the path
handleFileNotFound(m, p) == removeFile(m, p)

\* The hash continuation with the listener of the file queue module attached.
AfterHashListened(m, r, res) ==
  IF res = "404"
  THEN LET m1 == [m EXCEPT !.processing = MapSet(@, r.path, FILE_NOT_FOUND)]
           m2 == emit(m1, Event("file-not-found", r.path, "", 0, 0, <<>>))
       IN Finally(RunGone(handleFileNotFound(m2, r.path), r))
  ELSE AfterHash(m, r, res)

HashListenedSteps ==
  {Step("hash", r.path, FALSE, FALSE, "404", AfterHashListened(M, r, "404")) :
     r \in RunsAt("hash")}

\* handleCacheCleared: one batchDeleteCache request when hashes are given.
handleCacheCleared(e) == IF Len(e.hashes) > 0 THEN <<e.hashes>> ELSE <<>>

\* The batchDeleteCache requests made by the listener for the events ev.
RECURSIVE CacheDeleteRequests(_)
CacheDeleteRequests(ev) ==
  IF ev = <<>> THEN <<>>
  ELSE (IF Head(ev).type = "cache-cleared" THEN handleCacheCleared(Head(ev)) ELSE <<>>)
       \o CacheDeleteRequests(Tail(ev))

\* handleRename, for one renamed file: only a completed entry is moved.
handleRename(m, old, new) ==
  IF old \notin DOMAIN m.completed THEN m
  ELSE LET cachedData == m.completed[old]
           m1 == removeFile(m, old)
       IN [m1 EXCEPT !.completed = MapSet(@, new, cachedData)]

\* forceReprocess: forget the path, then submit it with priority.
forceReprocess(m, p) == addToQueue(removeFile(m, p), p, TRUE, FALSE)

(***************************************************************************)
(* The manager with every stage of the pipeline: the probe answers any     *)
(* combination of cached artifacts, each stage request can succeed, report *)
(* an error or fail, and the steps can be switched on and off.  The window *)
(* has the constructor's defaults, which three paths never fill.           *)
(***************************************************************************)
DefaultWindow == [maxReadyItems |-> 15, minQueueBuffer |-> 10, resumeThreshold |-> 5]

InitStages ==
  /\ queue = <<>>
  /\ processing = EmptyMap
  /\ completed = EmptyMap
  /\ activeWorkers = 0
  /\ isPaused = FALSE
  /\ doneItems = <<>>
  /\ doneCount = 0
  /\ maxWorkers \in WorkerValues
  /\ enabled = TRUE
  /\ steps = DefaultSteps
  /\ rollingWindow = DefaultWindow
  /\ runs = EmptyBag
  /\ sincePause = 0
  /\ plainSub = {}
  /\ mustPrecede = {}
  /\ InitOthers

RunSteps ==
  HashSteps \cup HashListenedSteps \cup CheckSteps(CheckResults) \cup NefSteps
  \cup FacesSteps \cup ThumbnailsSteps

StageSteps == AddSteps \cup RemoveFileSteps \cup UpdateConfigSteps(StepConfigs) \cup RunSteps

UpdateSteps == \E s \in UpdateConfigSteps(StepConfigs) : Commit(s)
HashListened == \E s \in HashListenedSteps : Commit(s)
ProbeSettled == \E s \in CheckSteps(CheckResults) : Commit(s)
NefSettled == \E s \in NefSteps : Commit(s)
FacesSettled == \E s \in FacesSteps : Commit(s)
ThumbnailsSettled == \E s \in ThumbnailsSteps : Commit(s)

NextStages ==
  \/ AddToQueue
  \/ RemoveFile
  \/ UpdateSteps
  \/ HashSettled
  \/ HashListened
  \/ ProbeSettled
  \/ NefSettled
  \/ FacesSettled
  \/ ThumbnailsSettled

SpecStages == InitStages /\ [][NextStages]_vars

(***************************************************************************)
(* The manager with its caller's file handling: a file can be removed      *)
(* while its run is in flight, and a file can be renamed to a name the     *)
(* manager does not know.  The backend is the one of Spec, the window has  *)
(* the constructor's defaults.                                             *)
(***************************************************************************)
\* The names a file can be renamed to: not tracked, and no run under them.
FreshNames == {p \in Paths : Untracked(p) /\ ~InFlight(p)}

RenameSteps ==
  {Step("rename", old, FALSE, FALSE, "", handleRename(M, old, new)) :
     old \in Paths, new \in FreshNames}

TrackingSteps ==
  AddSteps \cup RemoveFileSteps \cup RemoveInFlightSteps \cup MarkDoneSteps
  \cup RenameSteps \cup HashSteps \cup CheckSteps(CachedOrFailed)

RemoveInFlight == \E s \in RemoveInFlightSteps : Commit(s)
Rename == \E s \in RenameSteps : Commit(s)

NextTracking ==
  \/ AddToQueue
  \/ RemoveFile
  \/ RemoveInFlight
  \/ MarkDone
  \/ Rename
  \/ HashSettled
  \/ CheckSettled

SpecTracking == InitStages /\ [][NextTracking]_vars

(***************************************************************************)
(* The pause/resume scenario: ten paths are submitted in one call to a     *)
(* manager with the window 4/3/2 and the default two workers, every file   *)
(* is hashed and found cached, and the reviewer marks ready files done     *)
(* whenever the processing has come to a stop.                             *)
(***************************************************************************)
ScenarioPaths == [i \in 1..10 |-> i]
ScenarioWindow == [maxReadyItems |-> 4, minQueueBuffer |-> 3, resumeThreshold |-> 2]
DefaultWorkers == 2

InitScenario ==
  /\ queue = <<>>
  /\ processing = EmptyMap
  /\ completed = EmptyMap
  /\ activeWorkers = 0
  /\ isPaused = FALSE
  /\ doneItems = <<>>
  /\ doneCount = 0
  /\ maxWorkers = DefaultWorkers
  /\ enabled = TRUE
  /\ steps = DefaultSteps
  /\ rollingWindow = ScenarioWindow
  /\ runs = EmptyBag
  /\ sincePause = 0
  /\ plainSub = {}
  /\ mustPrecede = {}
  /\ InitOthers

Stopped == runs = EmptyBag
ReadyPaths == {p \in DOMAIN completed : p \notin Range(doneItems)}

SubmitAllSteps ==
  IF queue = <<>> /\ DOMAIN completed = {} /\ DOMAIN processing = {} /\ Stopped
  THEN {Step("addMultipleToQueue", NoPath, FALSE, FALSE, "",
             addMultipleToQueue(M, ScenarioPaths))}
  ELSE {}

HashedSteps == {s \in HashSteps : s.res = "ok"}
CachedSteps == {s \in CheckSteps(CheckResults) : s.res = "cached"}

ReviewSteps ==
  IF Stopped
  THEN {Step("markDone", p, FALSE, FALSE, "", markDone(M, p)) : p \in ReadyPaths}
  ELSE {}

ScenarioSteps == SubmitAllSteps \cup HashedSteps \cup CachedSteps \cup ReviewSteps

SubmitAll == \E s \in SubmitAllSteps : Commit(s)
Hashed == \E s \in HashedSteps : Commit(s)
Cached == \E s \in CachedSteps : Commit(s)
Review == \E s \in ReviewSteps : Commit(s)

NextScenario ==
  \/ SubmitAll
  \/ Hashed
  \/ Cached
  \/ Review

SpecScenario == InitScenario /\ [][NextScenario]_vars

(***************************************************************************)
(* The file queue module (FileQueueModule) around the manager: its queue   *)
(* of items, the preprocessing status it keeps per path from the manager's *)
(* events, and the debounced effect that sends the digests of the queued   *)
(* files to the backend as the cache priority set.  React renders after a  *)
(* handler has set state; the effect runs after the render.  No file has   *)
(* been reviewed yet (processedFiles is empty) and no rename is going on;  *)
(* files enter the queue by addFiles and leave it when the file watcher    *)
(* reports them deleted or the manager finds them missing.                 *)
(***************************************************************************)
NumFiles == 2
MaxItems == 2
NoHash == 0
\* The files the user drops on the queue and the file watcher reports.
Files == 1..NumFiles

\* preprocessingStatus[p]?.hash.  Of a status entry {status, faceCount, hash} the
\* model keeps the hash (NoHash: an entry without one).
HashOf(ps, p) == IF p \in DOMAIN ps THEN ps[p] ELSE NoHash

\* { ...(prev[filePath] || {}), status }: the hash stays
handleStatusChange(ps, e) == MapSet(ps, e.path, HashOf(ps, e.path))
\* { status: COMPLETED, faceCount, hash }
handleCompleted(ps, e) == MapSet(ps, e.path, e.hashes[1])
\* { status: ERROR }: the hash is gone
handleError(ps, e) == MapSet(ps, e.path, NoHash)
\* { status: FILE_NOT_FOUND }: the hash is gone
markFileNotFound(ps, e) == MapSet(ps, e.path, NoHash)

\* The listeners subscribed with manager.on, run on the events in emission order.
RECURSIVE Listeners(_, _)
Listeners(ps, ev) ==
  IF ev = <<>> THEN ps
  ELSE LET e == Head(ev)
           ps1 == CASE e.type = "status-change" -> handleStatusChange(ps, e)
                    [] e.type = "completed" -> handleCompleted(ps, e)
                    [] e.type = "error" -> handleError(ps, e)
                    [] e.type = "file-not-found" -> markFileNotFound(ps, e)
                    [] OTHER -> ps
       IN Listeners(ps1, Tail(ev))

StatusEvents == {"status-change", "completed", "error", "file-not-found"}
SetsStatus(ev) == \E i \in 1..Len(ev) : ev[i].type \in StatusEvents
NotFoundPaths(ev) == {ev[i].path : i \in {j \in 1..Len(ev) : ev[j].type = "file-not-found"}}

\* handleFileNotFound: batchDeleteCache([hash]) for the hash removeFile returned
\* (removeFile emits file-removed exactly when it returns a hash)
NotFoundRequests(ev) ==
  {ev[i].hashes[1] : i \in {j \in 1..Len(ev) : ev[j].type = "file-removed"}}

\* queue.map(item => preprocessingStatus[item.filePath]?.hash).filter(Boolean)
queueHashes(q, ps) ==
  SelectSeq([i \in 1..Len(q) |-> HashOf(ps, q[i])], LAMBDA h : h # NoHash)

RECURSIVE InsertSorted(_, _)
InsertSorted(q, x) ==
  IF q = <<>> THEN <<x>>
  ELSE IF x < Head(q) THEN <<x>> \o q
  ELSE <<Head(q)>> \o InsertSorted(Tail(q), x)
RECURSIVE naturalSort(_)
naturalSort(q) ==
  IF q = <<>> THEN <<>>
  ELSE InsertSorted(naturalSort(SubSeq(q, 1, Len(q) - 1)), q[Len(q)])

Positions == {"start", "sorted", "end"}
uniqueNew(prev, filePaths) == SelectSeq(filePaths, LAMBDA p : p \notin Range(prev))
addFilesQueue(prev, filePaths, position) ==
  LET new == uniqueNew(prev, filePaths)
  IN IF position = "start" THEN new \o prev
     ELSE IF position = "sorted" THEN naturalSort(prev \o new)
     ELSE prev \o new

\* A handler of the module that called the manager (step s) and set state.
CommitModule(s, q, ps, missing) ==
  /\ CommitManager(s)
  /\ fileQueue' = q
  /\ preprocessingStatus' = ps
  /\ missingFiles' = missing
  /\ renderPending' = TRUE
  /\ UNCHANGED <<preprocessingStatusRef, priorityHashesTimer, watchedFiles, priorityHashes,
                 storeVars, clientVars, extVars>>

FilePathLists == {<<a>> : a \in Files} \cup {<<a, b>> : a \in Files, b \in Files}

AddFiles ==
  \E filePaths \in FilePathLists, position \in Positions :
    /\ Len(fileQueue) + Len(filePaths) <= MaxItems
    /\ LET s == Step("addFiles", NoPath, FALSE, FALSE, position,
                     addMultipleToQueue(M, uniqueNew(fileQueue, filePaths)))
       IN CommitModule(s, addFilesQueue(fileQueue, filePaths, position),
                       Listeners(preprocessingStatus, s.m.ev), missingFiles)

\* handleFileDeleted: the hash it asks the backend to delete (NoHash: no request)
DeletedHash(p) ==
  LET ppStatus == HashOf(preprocessingStatusRef, p)
      removedHash == IF p \in DOMAIN completed THEN completed[p] ELSE NoHash
  IN IF removedHash # NoHash THEN removedHash ELSE ppStatus

\* The file watcher reports a watched file deleted.
FileDeleted ==
  \E p \in watchedFiles :
    /\ InFlight(p) => BagCardinality(runs) <= MaxOrphans
    /\ CommitModule(Step("fileDeleted", p, FALSE, FALSE, "", removeFile(M, p)),
                    Without(fileQueue, p), MapDelete(preprocessingStatus, p), missingFiles)

\* A continuation of a pipeline run, with the module's listeners attached.
ListenedSteps ==
  {s \in HashSteps : s.res # "404"} \cup HashListenedSteps \cup CheckSteps(CachedOrFailed)

RunSettled ==
  \E s \in ListenedSteps :
    /\ CommitManager(s)
    /\ preprocessingStatus' = Listeners(preprocessingStatus, s.m.ev)
    /\ missingFiles' = missingFiles \cup NotFoundPaths(s.m.ev)
    /\ renderPending' = (renderPending \/ SetsStatus(s.m.ev))
    /\ UNCHANGED <<fileQueue, preprocessingStatusRef, priorityHashesTimer, watchedFiles,
                   priorityHashes, storeVars, clientVars, extVars>>

\* missingFilesTimeoutRef fires: the missing files leave the queue
MissingTimerFires ==
  /\ missingFiles # {}
  /\ fileQueue' = SelectSeq(fileQueue, LAMBDA p : p \notin missingFiles)
  /\ missingFiles' = {}
  /\ renderPending' = TRUE
  /\ UNCHANGED <<progVars, histVars, preprocessingStatus, preprocessingStatusRef,
                 priorityHashesTimer, watchedFiles, priorityHashes, storeVars, clientVars, extVars>>

\* (variant: the effect sets no timer for an empty list)
effectTimerSkipsEmpty(timer, q, ps) ==
  IF queueHashes(q, ps) = <<>> THEN <<>> ELSE <<Range(queueHashes(q, ps))>>

\* The priority effect: clears the pending timer and sets one for this render.
effectTimer(timer, q, ps) == <<Range(queueHashes(q, ps))>>

Render ==
  /\ renderPending
  /\ renderPending' = FALSE
  /\ preprocessingStatusRef' = preprocessingStatus
  /\ priorityHashesTimer' = effectTimer(priorityHashesTimer, fileQueue, preprocessingStatus)
  /\ watchedFiles' = Range(fileQueue)
  /\ UNCHANGED <<progVars, histVars, fileQueue, preprocessingStatus, missingFiles,
                 priorityHashes, storeVars, clientVars, extVars>>

\* The timer of the effect fires: apiClient.setPriorityCacheHashes(queueHashes)
PriorityTimerFires ==
  /\ priorityHashesTimer # <<>>
  /\ priorityHashes' = priorityHashesTimer[1]
  /\ priorityHashesTimer' = <<>>
  /\ UNCHANGED <<progVars, histVars, fileQueue, preprocessingStatus,
                 preprocessingStatusRef, renderPending, missingFiles, watchedFiles,
                 storeVars, clientVars, extVars>>

NextFileQueue ==
  \/ AddFiles
  \/ FileDeleted
  \/ RunSettled
  \/ MissingTimerFires
  \/ Render
  \/ PriorityTimerFires

\* The manager as the module constructs it from the default preferences.
InitModule == InitStages /\ maxWorkers = DefaultWorkers

SpecFileQueue == InitModule /\ [][NextFileQueue]_vars

(***************************************************************************)
(* The backend's cache store (CacheStore), which receives the delete       *)
(* requests and the priority sets the frontend sends.  Every entry has the *)
(* same size and the budget is counted in entries.  An eviction tick first *)
(* computes its candidate list, reading the priority set, and then deletes *)
(* the candidates one at a time; other operations run in between.          *)
(***************************************************************************)
Budget == 1
MaxClock == 2
Digests == {FileHash(p) : p \in Paths}

\* Eviction order: oldest completed_at first, ties by the smallest digest.
EvictsBefore(entries, a, b) ==
  entries[a] < entries[b] \/ (entries[a] = entries[b] /\ a < b)
RECURSIVE OldestFirst(_, _)
OldestFirst(entries, pool) ==
  IF pool = {} THEN <<>>
  ELSE LET d == CHOOSE x \in pool : \A y \in pool \ {x} : EvictsBefore(entries, x, y)
       IN <<d>> \o OldestFirst(entries, pool \ {d})

\* (variant: plain least-recently-completed order, the priority set not read)
candidatesOldest(entries, priority) ==
  LET over == Cardinality(DOMAIN entries) - Budget
  IN SubSeq(OldestFirst(entries, DOMAIN entries), 1, Max(over, 0))

\* The candidate list of a tick: entries outside the priority set as long as
\* there are any, priority entries only when every entry is a priority entry.
candidates(entries, priority) ==
  LET nonPriority == DOMAIN entries \ priority
      pool == IF nonPriority # {} THEN nonPriority ELSE DOMAIN entries
      over == Cardinality(DOMAIN entries) - Budget
  IN SubSeq(OldestFirst(entries, pool), 1, Max(Min(over, Cardinality(pool)), 0))

admit(entries, d, now) == MapSet(entries, d, now)

\* delete_many: a hint, digests of the priority set are spared
delete_many(entries, priority, digests) ==
  [d \in DOMAIN entries \ (digests \ priority) |-> entries[d]]

Admit ==
  \E d \in Digests :
    /\ cacheEntries' = admit(cacheEntries, d, cacheClock)
    /\ UNCHANGED <<progVars, histVars, fqVars, clientVars, extVars, cacheClock, eviction>>

ClockAdvances ==
  /\ cacheClock < MaxClock
  /\ cacheClock' = cacheClock + 1
  /\ UNCHANGED <<progVars, histVars, fqVars, clientVars, extVars, cacheEntries, eviction>>

DeleteMany ==
  \E digests \in SUBSET Digests :
    /\ cacheEntries' = delete_many(cacheEntries, priorityHashes, digests)
    /\ UNCHANGED <<progVars, histVars, fqVars, clientVars, extVars, cacheClock, eviction>>

\* set_priority: replaces the priority set in one step
SetPriority ==
  \E digests \in SUBSET Digests :
    /\ priorityHashes' = digests
    /\ UNCHANGED <<progVars, histVars, fileQueue, preprocessingStatus,
                   preprocessingStatusRef, renderPending, priorityHashesTimer,
                   missingFiles, watchedFiles, storeVars, clientVars, extVars>>

\* tick_eviction, the decision: runs when the store is over its budget
TickEviction ==
  /\ eviction = NoEviction
  /\ Cardinality(DOMAIN cacheEntries) > Budget
  /\ LET c == candidates(cacheEntries, priorityHashes)
     IN eviction' = [list |-> c, decided |-> c, priority |-> priorityHashes,
                     entries |-> DOMAIN cacheEntries]
  /\ UNCHANGED <<progVars, histVars, fqVars, clientVars, extVars, cacheEntries, cacheClock>>

\* tick_eviction, one deletion of the candidate list
EvictNext ==
  /\ eviction.list # <<>>
  /\ cacheEntries' = MapDelete(cacheEntries, Head(eviction.list))
  /\ eviction' = IF Len(eviction.list) = 1 THEN NoEviction
                 ELSE [eviction EXCEPT !.list = Tail(@)]
  /\ UNCHANGED <<progVars, histVars, fqVars, clientVars, extVars, cacheClock>>

NextCacheStore ==
  \/ Admit
  \/ ClockAdvances
  \/ DeleteMany
  \/ SetPriority
  \/ TickEviction
  \/ EvictNext

SpecCacheStore == InitModule /\ [][NextCacheStore]_vars

(***************************************************************************)
(* The WebSocket of the API client (APIClient): connectWebSocket,          *)
(* disconnectWebSocket, the handlers of a socket and the reconnect timers. *)
(* A handler belongs to the socket it was set on and runs when that socket *)
(* opens, fails or closes, whether or not this.ws still refers to it.      *)
(***************************************************************************)
MaxDetached == 1
MaxTimers == 2
maxReconnectAttempts == 10
reconnectDelay == 1000
maxReconnectDelay == 30000
\* Math.random() * 2 - 1, in percent of the 20% jitter span
JitterPercents == {-100, 0, 100}

Client == [ws |-> ws, detached |-> detached, isConnecting |-> isConnecting,
           _connected |-> _connected,
           _shouldReconnect |-> _shouldReconnect,
           reconnectAttempts |-> reconnectAttempts,
           reconnectTimers |-> reconnectTimers, lastDelay |-> lastDelay,
           opened |-> FALSE]

Detach(c, state) ==
  IF state \in {"connecting", "open", "closing"}
  THEN [c EXCEPT !.detached[state] = @ + 1] ELSE c
Gone(c, state) == [c EXCEPT !.detached[state] = @ - 1]
DetachedCount(c) == c.detached.connecting + c.detached.open + c.detached.closing

connectWebSocket(c) ==
  IF c.ws = "open" THEN c
  ELSE IF c.isConnecting THEN c
  ELSE [Detach(c, c.ws) EXCEPT !.isConnecting = TRUE, !.ws = "connecting",
                               !.opened = TRUE]

\* ws.close() leaves the socket closing, its close event still to come
disconnectWebSocket(c, allowReconnect) ==
  LET c1 == [c EXCEPT !._shouldReconnect = allowReconnect]
  IN IF c1.ws = "null" THEN c1
     ELSE [Detach(c1, IF c1.ws = "closed" THEN "closed" ELSE "closing")
             EXCEPT !.ws = "null"]

_notifyConnectionListeners(c, connected) == [c EXCEPT !._connected = connected]

onopen(c) ==
  _notifyConnectionListeners(
    [c EXCEPT !.reconnectAttempts = 0, !._shouldReconnect = TRUE, !.isConnecting = FALSE],
    TRUE)

onerror(c) == [c EXCEPT !.isConnecting = FALSE]

\* The delay computed in onclose: exponential backoff, cap, then jitter.
delay(attempts, jitter) ==
  LET capped == Min(reconnectDelay * 2 ^ (attempts - 1), maxReconnectDelay)
  IN capped + (capped * 20 * jitter) \div 10000

onclose(c, jitter) ==
  LET c1 == _notifyConnectionListeners([c EXCEPT !.isConnecting = FALSE], FALSE)
  IN IF ~c1._shouldReconnect THEN c1
     ELSE IF c1.reconnectAttempts < maxReconnectAttempts
     THEN [c1 EXCEPT !.reconnectAttempts = @ + 1,
                     !.reconnectTimers = @ + 1,
                     !.lastDelay = delay(c1.reconnectAttempts + 1, jitter)]
     ELSE c1

CommitClient(c, off) ==
  /\ ws' = c.ws
  /\ detached' = c.detached
  /\ isConnecting' = c.isConnecting
  /\ _connected' = c._connected
  /\ _shouldReconnect' = c._shouldReconnect
  /\ reconnectAttempts' = c.reconnectAttempts
  /\ reconnectTimers' = c.reconnectTimers
  /\ lastDelay' = c.lastDelay
  /\ manualOff' = off
  /\ DetachedCount(c) <= MaxDetached
  /\ c.reconnectTimers <= MaxTimers
  /\ UNCHANGED <<progVars, histVars, fqVars, storeVars, extVars>>

\* The application connects (BackendContext, on mount or retry).
Connect == \E c \in {connectWebSocket(Client)} : CommitClient(c, FALSE)

\* The application disconnects (BackendContext, on unmount).
Disconnect ==
  \E allowReconnect \in BOOLEAN :
    \E c \in {disconnectWebSocket(Client, allowReconnect)} :
      CommitClient(c, ~allowReconnect)

\* A reconnect timer fires.
TimerFires ==
  /\ reconnectTimers > 0
  /\ CommitClient(connectWebSocket([Client EXCEPT !.reconnectTimers = @ - 1]), manualOff)

\* The sockets an event can arrive for: the one this.ws refers to, or a detached one.
SocketsIn(state) ==
  (IF ws = state THEN {"ws"} ELSE {}) \cup (IF detached[state] > 0 THEN {"detached"} ELSE {})
Moved(c, which, from, to) ==
  IF which = "ws" THEN [c EXCEPT !.ws = to]
  ELSE IF to = "closed" THEN Gone(c, from)
  ELSE [Gone(c, from) EXCEPT !.detached[to] = @ + 1]

SocketOpens ==
  \E which \in SocketsIn("connecting") :
    CommitClient(onopen(Moved(Client, which, "connecting", "open")), manualOff)

\* The connection attempt fails: the error event, then the close event.
SocketFails ==
  \E which \in SocketsIn("connecting"), jitter \in JitterPercents :
    CommitClient(onclose(onerror(Moved(Client, which, "connecting", "closed")), jitter),
                 manualOff)

\* The open connection is lost.
SocketDrops ==
  \E which \in SocketsIn("open"), jitter \in JitterPercents :
    CommitClient(onclose(Moved(Client, which, "open", "closed"), jitter), manualOff)

\* The close event of a socket the client closed.
SocketClosed ==
  \E jitter \in JitterPercents :
    /\ detached.closing > 0
    /\ CommitClient(onclose(Gone(Client, "closing"), jitter), manualOff)

NextClient ==
  \/ Connect
  \/ Disconnect
  \/ TimerFires
  \/ SocketOpens
  \/ SocketFails
  \/ SocketDrops
  \/ SocketClosed

SpecClient == InitModule /\ [][NextClient]_vars

(***************************************************************************)
(* What a step did, read from the manager it leaves.                       *)
(***************************************************************************)
Emitted(s, type) == Cardinality({i \in 1..Len(s.m.ev) : s.m.ev[i].type = type})
Started(s, p) == p \in Range(s.m.started)
StartedBefore(s, a, b) ==
  Started(s, a) /\ Started(s, b) /\ IndexOf(s.m.started, a) < IndexOf(s.m.started, b)
\* The step ends a run: its promise chain has reached .finally.
Completion(s) ==
  \/ s.name = "hash" /\ s.res \in {"404", "error"}
  \/ s.name = "check" /\ s.res \in {"failed", "cached"}
\* The step is a force submission that took the _forceProcessFile branch.
ForcedStart(s) == Accepted(s) /\ s.force /\ isPaused
ReadyCount == getReadyCount(M)

(***************************************************************************)
(* C1: in every reachable state the number of pipeline runs in flight is   *)
(* at most max_workers.                                                    *)
(***************************************************************************)
C1_InFlightAtMostMaxWorkers ==
  /\ BagCardinality(runs) <= maxWorkers
  /\ activeWorkers <= maxWorkers

(***************************************************************************)
(* C2: ready_count, the number of completed files not yet marked consumed, *)
(* never exceeds max_ready_items.                                          *)
(***************************************************************************)
C2_ReadyAtMostMaxReady == ReadyCount <= rollingWindow.maxReadyItems

(***************************************************************************)
(* C3: while paused, a step resumes the manager exactly when it is the     *)
(* mark_consumed call with which the number of ready entries marked        *)
(* consumed since the pause began reaches resume_threshold.                *)
(***************************************************************************)
C3_ResumeExactlyAtThreshold ==
  \A s \in ManagerSteps :
    isPaused =>
      (Emitted(s, "resumed") > 0
         <=> /\ s.name = "markDone"
             /\ sincePause < rollingWindow.resumeThreshold
             /\ SincePauseAfter(s) >= rollingWindow.resumeThreshold)

(***************************************************************************)
(* C4: the manager never stays paused forever with files queued: there is  *)
(* no reachable state that is paused with a non-empty queue in which no    *)
(* run is in flight and no completed entry is left for the reviewer to     *)
(* mark, so that nothing the reviewer or a worker does can resume it.      *)
(***************************************************************************)
C4_NeverStuckPaused ==
  ~(/\ isPaused
    /\ Len(queue) > 0
    /\ runs = EmptyBag
    /\ DOMAIN completed = {})

(***************************************************************************)
(* C5: a worker completion or an accepted submission that, starting from   *)
(* the running window, leaves ready_count >= min_queue_buffer with a       *)
(* non-empty queue leaves the manager paused, has emitted exactly one      *)
(* paused event and has dispatched no file.                                *)
(***************************************************************************)
C5_Case(s) ==
  /\ Completion(s) \/ Accepted(s)
  /\ ~isPaused
  /\ getReadyCount(s.m) >= s.m.rollingWindow.minQueueBuffer
  /\ Len(s.m.queue) > 0

C5_PauseAtWatermark ==
  \A s \in ManagerSteps :
    C5_Case(s) =>
      /\ s.m.isPaused
      /\ Emitted(s, "paused") = 1
      /\ s.m.started = <<>>

C5_Witness ==
  \E s \in ManagerSteps :
    /\ C5_Case(s) /\ Completion(s)
    /\ s.m.isPaused /\ Emitted(s, "paused") = 1 /\ BagCardinality(s.m.runs) > 0

(***************************************************************************)
(* C6: a path that was not started by its own force submission is never    *)
(* dispatched while the window is paused or while ready_count >=           *)
(* max_ready_items.                                                        *)
(***************************************************************************)
C6_NoDispatchPausedOrFull ==
  \A s \in ManagerSteps :
    \A p \in Range(s.m.started) :
      ~(ForcedStart(s) /\ p = s.path) =>
        /\ ~s.m.isPaused
        /\ getReadyCount(s.m) < s.m.rollingWindow.maxReadyItems

C6_Witness ==
  \E s \in ManagerSteps :
    /\ s.name = "markDone"
    /\ isPaused
    /\ Len(s.m.started) > 0
    /\ getReadyCount(s.m) = s.m.rollingWindow.maxReadyItems - 1

(***************************************************************************)
(* C7: a force-flagged submission of an untracked path starts its pipeline *)
(* run in the same step, both when the window is paused and when           *)
(* ready_count >= max_ready_items.                                         *)
(***************************************************************************)
C7_ForceStartsImmediately ==
  \A s \in AddSteps :
    (/\ Accepted(s)
     /\ s.force
     /\ isPaused \/ ReadyCount >= rollingWindow.maxReadyItems)
      => Started(s, s.path)

C9_FifoWithinPlain ==
  \A s \in ManagerSteps :
    \A pr \in PrecedeAfter(s) :
      (/\ pr[1] \in PlainAfter(s)
       /\ pr[2] \in PlainAfter(s)
       /\ Started(s, pr[2]))
        => StartedBefore(s, pr[1], pr[2])

C9_Witness ==
  \E s \in ManagerSteps :
    \E pr \in mustPrecede :
      /\ pr[1] \in plainSub /\ pr[2] \in plainSub
      /\ Completion(s)
      /\ Started(s, pr[1]) /\ ~Started(s, pr[2])
      /\ pr[2] \in Range(s.m.queue)

(***************************************************************************)
(* C10: an accepted priority submission is at the queue head (or the first *)
(* path started) when the call returns; no path that was pending when it   *)
(* was submitted is started unless it is started first; and without the    *)
(* force flag it is not started while the window is paused.                *)
(***************************************************************************)
C10_PriorityJumpsAhead ==
  /\ \A s \in AddSteps :
       (Accepted(s) /\ s.priority) =>
         /\ \/ Len(s.m.queue) > 0 /\ Head(s.m.queue) = s.path
            \/ Len(s.m.started) > 0 /\ Head(s.m.started) = s.path
         /\ (isPaused /\ ~s.force) => ~Started(s, s.path)
  /\ \A s \in ManagerSteps :
       /\ \A pr \in PrecedeAfter(s) :
            (pr[1] \notin PlainAfter(s) /\ Started(s, pr[2]))
              => StartedBefore(s, pr[1], pr[2])
       /\ \A p \in Range(s.m.started) :
            s.m.isPaused => ForcedStart(s) /\ p = s.path

C10_Witness ==
  \E s \in ManagerSteps :
    \E pr \in mustPrecede :
      /\ pr[1] \notin plainSub
      /\ s.name = "markDone" /\ isPaused
      /\ Started(s, pr[1]) /\ ~Started(s, pr[2])
      /\ pr[2] \in Range(s.m.queue)

(***************************************************************************)
(* What a continuation of a run did.                                       *)
(***************************************************************************)
RunsOf(m, p) == BagCardinality([r \in {x \in BagToSet(m.runs) : x.path = p} |-> m.runs[r]])
TerminalEvents(s) ==
  Emitted(s, "completed") + Emitted(s, "error") + Emitted(s, "file-not-found")
\* The events of a step that announce the given status for the path.
StatusChanges(m, p, status) ==
  Cardinality({i \in 1..Len(m.ev) : /\ m.ev[i].type = "status-change"
                                    /\ m.ev[i].path = p
                                    /\ m.ev[i].status = status})
SlotsReleased(s) == activeWorkers + Len(s.m.started) - s.m.activeWorkers
\* The dispatch went on: nothing is pending, or no worker is idle, or the
\* window holds the queue back.
DispatchWentOn(m) ==
  \/ Len(m.queue) = 0
  \/ m.activeWorkers >= m.maxWorkers
  \/ m.isPaused
  \/ getReadyCount(m) >= m.rollingWindow.maxReadyItems

(***************************************************************************)
(* C11: when hashing answers that the file does not exist, the step ends   *)
(* the run with exactly one file-not-found event and no other terminal     *)
(* event, leaves the path in the file-not-found state (or forgotten by the *)
(* listener) and never completed, starts no stage and no new run for it,   *)
(* releases one worker slot and goes on dispatching the pending paths; a   *)
(* path in the file-not-found state has no run and is not queued.          *)
(***************************************************************************)
C11_MissingFileTerminates ==
  /\ \A s \in HashSteps \cup HashListenedSteps :
       s.res = "404" =>
         /\ Emitted(s, "file-not-found") = 1
         /\ TerminalEvents(s) = 1
         /\ RunsOf(s.m, s.path) = RunsOf(M, s.path) - 1
         /\ ~Started(s, s.path)
         /\ s.path \notin DOMAIN s.m.completed
         /\ s.path \in DOMAIN s.m.processing
              => s.m.processing[s.path] = FILE_NOT_FOUND
         /\ SlotsReleased(s) = 1
         /\ DispatchWentOn(s.m)
  /\ \A p \in DOMAIN processing :
       processing[p] = FILE_NOT_FOUND => ~InFlight(p) /\ p \notin Range(queue)

C11_Witness ==
  \E s \in HashSteps :
    /\ s.res = "404"
    /\ Len(queue) > 0
    /\ Started(s, Head(queue))
    /\ s.m.processing[s.path] = FILE_NOT_FOUND
    /\ \E p \in DOMAIN processing : processing[p] = FILE_NOT_FOUND

(***************************************************************************)
(* C12: when the face-detection request reports an error or fails, the     *)
(* same step ends the run with an error event: the thumbnail stage is not  *)
(* started for it and the path is not recorded as completed.               *)
(***************************************************************************)
C12_FaceFailureTerminates ==
  \A s \in FacesSteps :
    s.res \in {"error", "throw"} =>
      /\ Emitted(s, "error") = 1
      /\ StatusChanges(s.m, s.path, GENERATING_THUMBNAILS) = 0
      /\ RunsOf(s.m, s.path) = 0
      /\ s.path \notin DOMAIN s.m.completed

(***************************************************************************)
(* C13: a continuation that ends its run emits exactly one terminal event  *)
(* (completed, error or file-not-found), for the path of the run, and      *)
(* releases exactly one worker slot; a continuation that awaits the next   *)
(* request, and every call of the manager, emits no terminal event and     *)
(* releases no slot; the slots taken are the runs in flight, and every run *)
(* in flight has a continuation to take.                                   *)
(***************************************************************************)
TerminalFor(s) ==
  {i \in 1..Len(s.m.ev) : /\ s.m.ev[i].type \in {"completed", "error", "file-not-found"}
                          /\ s.m.ev[i].path = s.path}

C13_OneTerminalEventPerRun ==
  /\ \A s \in RunSteps :
       IF RunsOf(s.m, s.path) < RunsOf(M, s.path)
       THEN /\ TerminalEvents(s) = 1
            /\ Cardinality(TerminalFor(s)) = 1
            /\ SlotsReleased(s) = 1
       ELSE /\ TerminalEvents(s) = 0
            /\ SlotsReleased(s) = 0
            /\ RunsOf(s.m, s.path) = RunsOf(M, s.path)
  /\ \A s \in StageSteps \ RunSteps :
       /\ TerminalEvents(s) = 0
       /\ SlotsReleased(s) = 0
       /\ \A p \in Paths : RunsOf(s.m, p) >= RunsOf(M, p)
  /\ activeWorkers = BagCardinality(runs)
  /\ \A r \in BagToSet(runs) : \E s \in RunSteps : s.path = r.path

C13_Witness ==
  \E s \in ThumbnailsSteps :
    \E r \in RunsAt("thumbnails") :
      /\ r.path = s.path /\ r.hasErrors
      /\ s.res = "throw"
      /\ Emitted(s, "error") = 1
      /\ BagCardinality(s.m.runs) > 0

(***************************************************************************)
(* C14: a RAW-decoding request that reports an error or fails ends with no *)
(* error event and leaves the run unfailed; the stages that follow it are  *)
(* the ones that follow a successful decode; and a run that reaches its    *)
(* end with no failed detection or thumbnail request is completed, also    *)
(* when it is the run of a RAW file that has no decoded preview.           *)
(***************************************************************************)
\* The runs and the events a continuation leaves, the decode result apart.
LaterStages(m) ==
  <<{[r EXCEPT !.hasNef = FALSE] : r \in BagToSet(m.runs)}, m.ev, m.completed,
    m.processing>>

C14_RawDecodeFailureNotTerminal ==
  /\ \A s \in NefSteps :
       s.res \in {"error", "throw"} =>
         /\ Emitted(s, "error") = 0
         /\ \A r \in BagToSet(s.m.runs) : r.path = s.path => ~r.hasErrors
         /\ \A r \in RunsAt("nef") :
              r.path = s.path =>
                LaterStages(AfterNef(M, r, s.res)) = LaterStages(AfterNef(M, r, "completed"))
  /\ \A s \in FacesSteps \cup ThumbnailsSteps :
       \A r \in RunsAt(s.name) :
         (/\ r.path = s.path /\ ~r.hasErrors
          /\ s.res \in {"completed", "cached"}
          /\ RunsOf(s.m, s.path) = 0)
           => /\ Emitted(s, "completed") = 1
              /\ s.path \in DOMAIN s.m.completed

C14_Witness ==
  /\ \E s \in NefSteps :
       /\ s.res = "throw"
       /\ StatusChanges(s.m, s.path, DETECTING_FACES) = 1
  /\ \E s \in ThumbnailsSteps :
       \E r \in RunsAt("thumbnails") :
         /\ r.path = s.path /\ _isRawFile(r.path) /\ ~r.hasNef /\ ~r.hasErrors
         /\ steps.nefConversion
         /\ s.res = "completed"
         /\ Emitted(s, "completed") = 1

(***************************************************************************)
(* C15: after the cache probe, no request is made for a stage whose        *)
(* artifact the probe reported present, neither by the continuation of the *)
(* probe nor by a later one; when the probe reports all three artifacts    *)
(* the run completes in that step with no stage request at all.            *)
(***************************************************************************)
StageRequests(m, p) ==
  [nef |-> StatusChanges(m, p, NEF_CONVERTING),
   face |-> StatusChanges(m, p, DETECTING_FACES),
   thumb |-> StatusChanges(m, p, GENERATING_THUMBNAILS)]
NoStageRequest == [nef |-> 0, face |-> 0, thumb |-> 0]

C15_CachedStagesSkipped ==
  /\ \A r \in RunsAt("check") :
       \A res \in CheckResults :
         res.ok =>
           LET m2 == AfterCheck(M, r, res)
               req == StageRequests(m2, r.path)
           IN /\ res.nef => req.nef = 0
              /\ res.face => req.face = 0
              /\ res.thumb => req.thumb = 0
              /\ (res.nef /\ res.face /\ res.thumb) =>
                   /\ req = NoStageRequest
                   /\ RunsOf(m2, r.path) = 0
                   /\ r.path \in DOMAIN m2.completed
  /\ \A s \in NefSteps \cup FacesSteps \cup ThumbnailsSteps :
       \A r \in RunsAt(s.name) :
         r.path = s.path =>
           LET req == StageRequests(s.m, s.path)
           IN /\ req.nef = 0
              /\ r.hasFace => req.face = 0
              /\ r.hasThumb => req.thumb = 0
  /\ \A r \in BagToSet(runs) :
       /\ r.pc = "nef" => ~r.hasNef
       /\ r.pc = "faces" => ~r.hasFace
       /\ r.pc = "thumbnails" => ~r.hasThumb

C15_Witness ==
  /\ \E s \in CheckSteps(CheckResults) :
       /\ s.res = "cached"
       /\ Emitted(s, "completed") = 1
       /\ StageRequests(s.m, s.path) = NoStageRequest
  /\ \E s \in NefSteps :
       \E r \in RunsAt("nef") :
         /\ r.path = s.path /\ r.hasFace /\ ~r.hasThumb
         /\ StageRequests(s.m, s.path) = [NoStageRequest EXCEPT !.thumb = 1]

Absent(m, p) ==
  /\ p \notin Range(m.queue)
  /\ p \notin DOMAIN m.processing
  /\ p \notin DOMAIN m.completed
  /\ p \notin Range(m.doneItems)

C17_RemovedStaysAbsent ==
  /\ \A s \in RemoveFileSteps \cup RemoveInFlightSteps : Absent(s.m, s.path)
  /\ \A s \in TrackingSteps \ RenameSteps :
       \A p \in Paths :
         (Absent(M, p) /\ ~(s.name = "addToQueue" /\ s.path = p)) => Absent(s.m, p)

(***************************************************************************)
(* C18: at most one pipeline run is in flight for a path.                  *)
(***************************************************************************)
C18_OneRunPerPath == \A p \in Paths : RunsOf(M, p) <= 1

(***************************************************************************)
(* C19: after handleRename(old, new), new being a name the manager does    *)
(* not know, nothing is tracked under old and no run is in flight under    *)
(* it; the completed entry of old with its digest, its processing status,  *)
(* its run and its place among the done items are held under new;          *)
(* ready_count is unchanged; and no cache deletion is requested.           *)
(***************************************************************************)
C19_RenameMigratesReferences ==
  \A old \in Paths :
    \A new \in FreshNames :
      LET m2 == handleRename(M, old, new)
      IN /\ Absent(m2, old)
         /\ RunsOf(m2, old) = 0
         /\ RunsOf(m2, new) = RunsOf(M, old)
         /\ old \in DOMAIN completed =>
              new \in DOMAIN m2.completed /\ m2.completed[new] = completed[old]
         /\ old \in DOMAIN processing =>
              new \in DOMAIN m2.processing /\ m2.processing[new] = processing[old]
         /\ old \in Range(doneItems) => new \in Range(m2.doneItems)
         /\ getReadyCount(m2) = ReadyCount
         /\ \A i \in 1..Len(m2.ev) : m2.ev[i].type # "cache-cleared"

(***************************************************************************)
(* C20: forceReprocess of a completed path starts a new run for that path  *)
(* in the same call, also while the window is paused.                      *)
(***************************************************************************)
C20_ForceReprocessStarts ==
  \A p \in DOMAIN completed :
    (enabled /\ isPaused) => p \in Range(forceReprocess(M, p).started)

(***************************************************************************)
(* C21: the window configuration always satisfies                          *)
(* max_ready_items >= min_queue_buffer > resume_threshold >= 1: neither    *)
(* the constructor nor updateConfig lets another configuration in.         *)
(***************************************************************************)
WindowOrdered(w) ==
  /\ w.maxReadyItems >= w.minQueueBuffer
  /\ w.minQueueBuffer > w.resumeThreshold
  /\ w.resumeThreshold >= 1

C21_WindowConfigOrdered ==
  /\ WindowOrdered(rollingWindow)
  /\ \A s \in UpdateConfigSteps(WindowConfigs) : WindowOrdered(s.m.rollingWindow)

(***************************************************************************)
(* C22: a markDone step that resumes purges the first                      *)
(* min(number of consumed entries, resume_threshold) consumed entries, in  *)
(* the order they were consumed, and no other entry; it emits exactly one  *)
(* cache-cleared event, whose count and digests are those of the purged    *)
(* entries, and the listener forwards them in exactly one delete request.  *)
(***************************************************************************)
Resumes(s) == s.name = "markDone" /\ Emitted(s, "resumed") = 1
\* The consumed entries when the step resumes, the one just marked included.
ConsumedAt(s) ==
  IF s.path \in Range(doneItems) THEN doneItems ELSE Append(doneItems, s.path)
Purged(s) ==
  SubSeq(ConsumedAt(s), 1, Min(Len(ConsumedAt(s)), rollingWindow.resumeThreshold))
CacheCleared(s) == SelectSeq(s.m.ev, LAMBDA e : e.type = "cache-cleared")

C22_ResumePurgesOldestConsumed ==
  \A s \in MarkDoneSteps :
    Resumes(s) =>
      /\ Len(CacheCleared(s)) = 1
      /\ CacheCleared(s)[1].count = Len(Purged(s))
      /\ Range(Purged(s)) \subseteq DOMAIN completed
      /\ CacheCleared(s)[1].hashes = [i \in 1..Len(Purged(s)) |-> completed[Purged(s)[i]]]
      /\ s.m.doneItems = SubSeq(ConsumedAt(s), Len(Purged(s)) + 1, Len(ConsumedAt(s)))
      /\ DOMAIN s.m.completed = (DOMAIN completed) \ Range(Purged(s))
      /\ CacheDeleteRequests(s.m.ev) = <<CacheCleared(s)[1].hashes>>

(***************************************************************************)
(* C23: the window events of a step alternate, the first one being paused  *)
(* when the step starts running and resumed when it starts paused; the     *)
(* step leaves the manager paused exactly when its last window event is    *)
(* paused (and as it was when it has none); and a resume with an empty     *)
(* queue starts no run.  The manager is constructed running.               *)
(***************************************************************************)
WindowEvents(s) == SelectSeq(s.m.ev, LAMBDA e : e.type \in {"paused", "resumed"})

C23_WindowEventsAlternate ==
  \A s \in ManagerSteps :
    LET w == WindowEvents(s)
    IN /\ \A i \in 1..Len(w) :
            w[i].type = IF (i % 2 = 1) = isPaused THEN "resumed" ELSE "paused"
       /\ s.m.isPaused = IF Len(w) = 0 THEN isPaused ELSE w[Len(w)].type = "paused"
       /\ (Emitted(s, "resumed") > 0 /\ Len(queue) = 0) => s.m.started = <<>>

C23_Witness ==
  \E s \in ManagerSteps :
    /\ Len(WindowEvents(s)) = 2
    /\ WindowEvents(s)[1].type = "resumed"
    /\ s.m.isPaused

\* C25: in the scenario (window 4/3/2, ten paths submitted) the paused
\* event fires at the completion of the 3rd file and 4 files are complete
\* when the processing stops; marking 2 of them done fires the resumed
\* event, which dispatches exactly the next 2 queued files, and the window
\* is paused again when the processing stops the next time.
NothingConsumed ==
  /\ doneItems = <<>>
  /\ Cardinality(DOMAIN completed) + BagCardinality(runs) + Len(queue) = Len(ScenarioPaths)
C25_ScenarioPauseResume ==
  /\ \A s \in CachedSteps :
        NothingConsumed =>
          (Emitted(s, "paused") = 1 <=> Cardinality(DOMAIN s.m.completed) = 3)
  /\ (Stopped /\ queue # <<>>) =>
        /\ isPaused
        /\ Cardinality(DOMAIN completed) = 4
        /\ Len(queue) % 2 = 0
        /\ NothingConsumed => DOMAIN completed = 1..4
  /\ \A s \in ReviewSteps :
        isPaused =>
          /\ Emitted(s, "resumed") = 1 <=> Len(doneItems) = 1
          /\ Emitted(s, "resumed") = 1 =>
                /\ s.m.started = <<queue[1], queue[2]>>
                /\ Emitted(s, "paused") = 0
C25_Witness ==
  /\ Stopped
  /\ isPaused
  /\ queue = SubSeq(ScenarioPaths, 7, 10)
  /\ {5, 6} \subseteq DOMAIN completed

\* C24: when a queued file is reported deleted or is found missing, the
\* digest the module asks the backend to delete is never a digest of the
\* priority set the backend holds.
C24_DeleteSparesPriority ==
  /\ \A p \in watchedFiles \cap Range(fileQueue) :
       (InFlight(p) => BagCardinality(runs) <= MaxOrphans) =>
         DeletedHash(p) \notin priorityHashes
  /\ \A s \in ListenedSteps : NotFoundRequests(s.m.ev) \cap priorityHashes = {}

\* C26: once the queue and the statuses are rendered and no timer is
\* pending, the priority set the backend holds is exactly the set of known
\* digests of the queued files; a pending timer of the latest render carries
\* exactly that set, and each send replaces the set as a whole.
C26_PrioritySetFollowsQueue ==
  LET current == Range(queueHashes(fileQueue, preprocessingStatus))
  IN /\ (~renderPending /\ priorityHashesTimer = <<>>) => priorityHashes = current
     /\ (~renderPending /\ priorityHashesTimer # <<>>) => priorityHashesTimer[1] = current
C26_Witness ==
  /\ ~renderPending
  /\ priorityHashesTimer = <<>>
  /\ priorityHashes # {}
  /\ Len(fileQueue) > Cardinality(priorityHashes)

\* C27: the file queue never holds two items with the same path.
C27_NoDuplicatePaths ==
  \A i \in 1..Len(fileQueue) : \A j \in 1..Len(fileQueue) :
    i # j => fileQueue[i] # fileQueue[j]

\* C28 (as stated): a deletion of the eviction tick never removes an entry
\* of the current priority set while an entry outside it exists, and a
\* delete request never removes an entry of the priority set.
C28_EvictionSparesPriority ==
  /\ eviction.list # <<>> =>
       LET d == Head(eviction.list)
       IN (d \in DOMAIN cacheEntries /\ d \in priorityHashes) =>
            DOMAIN cacheEntries \subseteq priorityHashes
  /\ \A digests \in SUBSET Digests :
       DOMAIN cacheEntries \cap priorityHashes
         \subseteq DOMAIN delete_many(cacheEntries, priorityHashes, digests)

\* C28 (amended): an eviction tick selects a digest of the priority set only
\* if, when it computed its candidate list, every entry was in the priority
\* set as it was then; and a delete request never removes an entry of the
\* priority set.
C28_PriorityDominanceAtDecision ==
  /\ \A i \in 1..Len(eviction.decided) :
       eviction.decided[i] \in eviction.priority =>
         eviction.entries \subseteq eviction.priority
  /\ \A digests \in SUBSET Digests :
       DOMAIN cacheEntries \cap priorityHashes
         \subseteq DOMAIN delete_many(cacheEntries, priorityHashes, digests)
C28_Witness ==
  /\ eviction.list # <<>>
  /\ Head(eviction.list) \in eviction.priority
  /\ Head(eviction.list) \in DOMAIN cacheEntries
  /\ Cardinality(eviction.entries) > 1

\* C29: after disconnectWebSocket(false), and until the application calls
\* connectWebSocket again, a reconnect timer that fires opens no WebSocket
\* and a close event sets no reconnect timer.
C29_NoReconnectAfterDisconnect ==
  manualOff =>
    /\ reconnectTimers > 0 => ~connectWebSocket(Client).opened
    /\ \A jitter \in JitterPercents :
         onclose(Client, jitter).reconnectTimers = reconnectTimers

\* C30: the delay of every reconnect timer is at most maxReconnectDelay.
C30_ReconnectDelayCapped == lastDelay <= maxReconnectDelay

\* C40: doneCount is the number of paths in doneItems, and every path in
\* doneItems has an entry in the completed map.
C40_DoneCountMatchesDoneItems ==
  /\ doneCount = Len(doneItems)
  /\ Range(doneItems) \subseteq DOMAIN completed

\* C35: every path is in at most one of the pending queue, the processing
\* map and the completed map.
C35_OneCollectionPerPath ==
  \A p \in Paths :
    /\ ~(p \in Range(queue) /\ p \in DOMAIN processing)
    /\ ~(p \in Range(queue) /\ p \in DOMAIN completed)
    /\ ~(p \in DOMAIN processing /\ p \in DOMAIN completed)

\* C38: the attempt counter never exceeds maxReconnectAttempts, and at most
\* one socket is connecting at any time.
Connecting == (IF ws = "connecting" THEN 1 ELSE 0) + detached.connecting
C38_BoundedReconnectAttempts ==
  /\ reconnectAttempts <= maxReconnectAttempts
  /\ Connecting <= 1

\* C37: once no discarded socket has an event to come, the state last told
\* to the connection listeners is connected exactly when this.ws is open.
C37_ReportedStateMatchesSocket ==
  detached = NoSockets => (_connected <=> ws = "open")

(***************************************************************************)
(* The file queue module's review commands: files are dropped on the queue *)
(* one at a time, loaded by a double click, skipped, reviewed, and removed *)
(* from the queue one by one, by selection, or all at once.  Fix mode and  *)
(* auto-advance are off, the processed files are loaded and none of the    *)
(* queued files was processed before this session.  Items are taken off   *)
(* the queue while no pipeline run is in flight.                           *)
(***************************************************************************)
\* prev.filter(item => item.id !== id), for the item at index
RemoveAt(q, index) == SubSeq(q, 1, index - 1) \o SubSeq(q, index + 1, Len(q))

\* item.status of the item of path p
StatusOf(st, p) == IF p \in DOMAIN st THEN st[p] ELSE "pending"

\* isFileEligible(item, context) for an item that was not processed before
isFileEligible(st, p) == StatusOf(st, p) # "completed"

\* queue.findIndex((item, i) => i !== excludeIndex && isFileEligible(item))
findEligible(q, st, excludeIndex) ==
  LET found == {i \in 1..Len(q) : i # excludeIndex /\ isFileEligible(st, q[i])}
  IN IF found = {} THEN NoIndex ELSE CHOOSE i \in found : \A j \in found : i <= j

\* advanceToNext: the index it loads (NoIndex: none, currentIndex becomes -1)
advanceTarget(q, st, cur) == findEligible(q, st, cur)

\* loadFile's setQueue: the item loaded is 'active', the one that was is 'pending'
loadStatus(q, st, index) ==
  LET calm == [p \in {x \in DOMAIN st : st[x] # "active"} |-> st[p]]
  IN MapSet(calm, q[index], "active")

\* The statuses of the items that stay in the queue.
keepStatus(st, q) == [p \in (DOMAIN st) \cap Range(q) |-> st[p]]

\* A command of the module that called the manager (step s) and set state.
CommitReview(s, q, st, index, file, skips) ==
  /\ CommitManager(s)
  /\ fileQueue' = q
  /\ preprocessingStatus' = Listeners(preprocessingStatus, s.m.ev)
  /\ renderPending' = TRUE
  /\ itemStatus' = st
  /\ currentIndex' = index
  /\ currentFile' = file
  /\ skipped' = skips
  /\ UNCHANGED <<preprocessingStatusRef, priorityHashesTimer, missingFiles, watchedFiles,
                 priorityHashes, storeVars, clientVars, nameVars, watchVars, thumbVars,
                 backendVars>>

\* A command that leaves the manager alone.
NoCall == Step("none", NoPath, FALSE, FALSE, "", M)

\* addFiles([p], position)
DropFile ==
  \E p \in Paths, position \in Positions :
    /\ p \notin Range(fileQueue)
    /\ LET s == Step("addFiles", NoPath, FALSE, FALSE, position,
                     addMultipleToQueue(M, <<p>>))
       IN CommitReview(s, addFilesQueue(fileQueue, <<p>>, position), itemStatus,
                       currentIndex, currentFile, {})

\* handleItemDoubleClick(index) on a file not reviewed yet: loadFile(index)
LoadFile ==
  \E index \in 1..Len(fileQueue) :
    /\ isFileEligible(itemStatus, fileQueue[index])
    /\ CommitReview(NoCall, fileQueue, loadStatus(fileQueue, itemStatus, index),
                    index, fileQueue[index], {})

\* skipCurrent: advanceToNext()
SkipCurrent ==
  /\ fileQueue # <<>>
  /\ LET nextIndex == advanceTarget(fileQueue, itemStatus, currentIndex)
         left == IF currentIndex = NoIndex THEN skipped
                 ELSE skipped \cup {fileQueue[currentIndex]}
     IN IF nextIndex # NoIndex
        THEN CommitReview(NoCall, fileQueue, loadStatus(fileQueue, itemStatus, nextIndex),
                          nextIndex, fileQueue[nextIndex], left)
        ELSE CommitReview(NoCall, fileQueue, itemStatus, NoIndex, currentFile, left)

\* The review module reports the file on display reviewed: review-complete
ReviewComplete ==
  \E success \in BOOLEAN :
    /\ currentFile # NoPath
    /\ success => (doneCount < MaxDone /\ sincePause < MaxDone)
    /\ LET imagePath == currentFile
           s == IF success
                THEN Step("markDone", imagePath, FALSE, FALSE, "", markDone(M, imagePath))
                ELSE NoCall
           others == SelectSeq(fileQueue, LAMBDA p : p # imagePath)
           nextIdx == IF \E p \in Range(others) : isFileEligible(itemStatus, p)
                      THEN 1 ELSE NoIndex
           st == IF imagePath \in Range(fileQueue)
                 THEN MapSet(itemStatus, imagePath,
                             IF success THEN "completed" ELSE "error")
                 ELSE itemStatus
       IN CommitReview(s, fileQueue, st,
                       IF nextIdx = NoIndex THEN NoIndex ELSE currentIndex,
                       currentFile, {})

\* removeFile(id) of the item at index
RemoveItem ==
  \E index \in 1..Len(fileQueue) :
    LET p == fileQueue[index]
        q == RemoveAt(fileQueue, index)
    IN Stopped /\ CommitReview(Step("removeFile", p, FALSE, FALSE, "", removeFile(M, p)),
                    q, keepStatus(itemStatus, q),
                    IF index < currentIndex THEN currentIndex - 1
                    ELSE IF index = currentIndex THEN NoIndex ELSE currentIndex,
                    IF p = currentFile THEN NoPath ELSE currentFile, {})

\* clearQueue
ClearQueue ==
  /\ fileQueue # <<>>
  /\ Stopped
  /\ CommitReview(Step("stop", NoPath, FALSE, FALSE, "", stop(M)),
                  <<>>, EmptyMap, NoIndex, NoPath, {})

\* clearCompleted of the module: the reviewed items leave the queue
ClearCompletedItems ==
  /\ Stopped
  /\ \E p \in Range(fileQueue) : StatusOf(itemStatus, p) = "completed"
  /\ LET q == SelectSeq(fileQueue, LAMBDA p : StatusOf(itemStatus, p) # "completed")
     IN CommitReview(NoCall, q, keepStatus(itemStatus, q), NoIndex,
                     IF currentFile \in Range(q) THEN currentFile ELSE NoPath, {})

\* clearSelected, with the items of the paths in selectedFiles selected
ClearSelected ==
  \E selectedFiles \in SUBSET Range(fileQueue) :
    /\ selectedFiles # {}
    /\ Stopped
    /\ LET q == SelectSeq(fileQueue, LAMBDA p : p \notin selectedFiles)
       IN CommitReview(NoCall, q, keepStatus(itemStatus, q), NoIndex,
                       IF currentFile \in selectedFiles THEN NoPath ELSE currentFile, {})

\* Reviewing a queue: files dropped one by one, loaded, skipped and reviewed.
NextReview ==
  \/ DropFile
  \/ LoadFile
  \/ SkipCurrent
  \/ ReviewComplete

SpecReview == InitModule /\ [][NextReview]_vars

\* Editing a queue while the manager preprocesses its files.
NextQueueEdit ==
  \/ AddFiles
  \/ RunSettled
  \/ LoadFile
  \/ ReviewComplete
  \/ RemoveItem
  \/ ClearQueue
  \/ ClearCompletedItems
  \/ ClearSelected

SpecQueueEdit == InitModule /\ [][NextQueueEdit]_vars

\* C36: every path the manager counts as ready (completed and not consumed) is the
\* path of an item of the file queue, whichever command removed items from the queue.
C36_ReadyPathsAreQueued == ReadyPaths \subseteq Range(fileQueue)

\* C31: the file on display after a skip was skipped before only when every eligible
\* file of the queue has been skipped since the skipping began.
C31_SkipVisitsAllFirst ==
  (currentIndex # NoIndex /\ fileQueue[currentIndex] \in skipped)
    => \A p \in Range(fileQueue) : isFileEligible(itemStatus, p) => p \in skipped

(***************************************************************************)
(* The name formatter's resolveFirstNameCollisions.  A string is a         *)
(* sequence of characters; a character is a number: Space, a lower-case    *)
(* letter, or the upper-case letter Upper above its lower-case one.        *)
(***************************************************************************)
NumNames == 2
MaxNameLen == 4
Space == 0
Upper == 10
Chars == {Space, 1, 2, Upper + 2}
Strings == UNION {[1..k -> Chars] : k \in 0..MaxNameLen}

\* String.prototype.toLowerCase
toLowerCase(str) == [i \in 1..Len(str) |-> IF str[i] > Upper THEN str[i] - Upper ELSE str[i]]
\* String.prototype.slice(0, n)
slice(str, n) == SubSeq(str, 1, IF n < Len(str) THEN n ELSE Len(str))

\* The length of the run of characters other than Space that str begins with.
RECURSIVE RunLen(_)
RunLen(str) ==
  IF str = <<>> \/ Head(str) = Space THEN 0 ELSE 1 + RunLen(Tail(str))

\* fullName.trim().split(/\s+/), of a trimmed string that is not empty
RECURSIVE splitWords(_)
splitWords(str) ==
  IF str = <<>> THEN <<>>
  ELSE IF Head(str) = Space THEN splitWords(Tail(str))
  ELSE <<SubSeq(str, 1, RunLen(str))>> \o splitWords(SubSeq(str, RunLen(str) + 1, Len(str)))

\* parts.join(' ')
RECURSIVE join(_)
join(parts) ==
  IF parts = <<>> THEN <<>>
  ELSE IF Len(parts) = 1 THEN parts[1]
  ELSE parts[1] \o <<Space>> \o join(Tail(parts))

splitName(fullName) ==
  LET parts == splitWords(fullName)
  IN IF Len(parts) < 2
     THEN [firstName |-> IF parts = <<>> THEN <<>> ELSE parts[1], lastName |-> <<>>]
     ELSE [firstName |-> parts[1], lastName |-> join(Tail(parts))]

RECURSIVE prefixLoop(_, _, _)
\* (variant: the prefixes are compared as they are, case included)
RECURSIVE prefixLoopExact(_, _, _)
prefixLoopExact(lastName, otherLastNames, prefixLen) ==
  IF \E other \in otherLastNames : slice(lastName, prefixLen) = slice(other, prefixLen)
  THEN IF prefixLen + 1 > Len(lastName) THEN prefixLen + 1
       ELSE prefixLoopExact(lastName, otherLastNames, prefixLen + 1)
  ELSE prefixLen

\* The while loop: prefixLen grows while some other last name has the same prefix,
\* and stops past the end of lastName.
prefixLoop(lastName, otherLastNames, prefixLen) ==
  IF \E other \in otherLastNames :
       toLowerCase(slice(lastName, prefixLen)) = toLowerCase(slice(other, prefixLen))
  THEN IF prefixLen + 1 > Len(lastName) THEN prefixLen + 1
       ELSE prefixLoop(lastName, otherLastNames, prefixLen + 1)
  ELSE prefixLen

resolveFirstNameCollisions(ns) ==
  LET uniqueNames == {ns[i] : i \in {j \in 1..Len(ns) : ns[j] # <<>>}}
      nameMap == {name \in uniqueNames : splitName(name).firstName # <<>>}
      firstNameMap(firstName) ==
        {splitName(name).lastName : name \in {n \in nameMap : splitName(n).firstName = firstName}}
  IN [name \in nameMap |->
        LET firstName == splitName(name).firstName
            lastName == splitName(name).lastName
            nonEmptyLastNames == {ln \in firstNameMap(firstName) : ln # <<>>}
            hasCollision == Cardinality(nonEmptyLastNames) > 1
            otherLastNames == nonEmptyLastNames \ {lastName}
        IN [firstName |-> firstName, lastName |-> lastName,
            needsDisambig |-> hasCollision,
            prefixLen |-> IF hasCollision /\ lastName # <<>>
                          THEN prefixLoop(lastName, otherLastNames, 1) ELSE 1]]

\* A caller formats its list of names, one name longer than the last time.
Resolve ==
  /\ Len(names) < NumNames
  /\ \E name \in Strings :
       /\ names' = Append(names, name)
       /\ result' = resolveFirstNameCollisions(Append(names, name))
  /\ UNCHANGED <<progVars, histVars, fqVars, storeVars, clientVars, reviewVars, watchVars,
                 thumbVars, backendVars>>

NextNames == Resolve

SpecNames == InitModule /\ [][NextNames]_vars

\* The last names, other than that of name, of the names sharing its first name.
Rivals(name) ==
  {result[n].lastName : n \in {x \in DOMAIN result :
      /\ result[x].firstName = result[name].firstName
      /\ result[x].lastName # <<>>
      /\ result[x].lastName # result[name].lastName}}

\* The first n characters of the last name tell it from every rival, ignoring case.
TellsApart(name, n) ==
  \A other \in Rivals(name) :
    toLowerCase(slice(result[name].lastName, n)) # toLowerCase(slice(other, n))

SameIgnoringCase(name) ==
  \E other \in Rivals(name) : toLowerCase(other) = toLowerCase(result[name].lastName)

dirname(filePath) == (filePath + 1) \div 2

\* The module's two maps and the watchers made so far.
W == [directoryWatchers |-> directoryWatchers, fileToDirectory |-> fileToDirectory,
      watchers |-> watchers, sent |-> sent]

\* watcher.close()
close(made, watcher) == [made EXCEPT ![watcher].open = FALSE]

\* dirEntry.files.delete(path), closing the watcher of a directory left without files
dropFile(w, dir, filePath) ==
  LET dirEntry == w.directoryWatchers[dir]
      files == dirEntry.files \ {filePath}
  IN IF files = {}
     THEN [w EXCEPT !.watchers = close(w.watchers, dirEntry.watcher),
                    !.directoryWatchers = MapDelete(w.directoryWatchers, dir)]
     ELSE [w EXCEPT !.directoryWatchers = MapSet(w.directoryWatchers, dir,
                                                 [dirEntry EXCEPT !.files = files])]

\* ipcMain.on("watch-file"); watchThrows: fs.watch throws
watchFile(w, filePath, exists, watchThrows) ==
  LET dir == dirname(filePath)
  IN IF filePath \in DOMAIN w.fileToDirectory THEN w
     ELSE IF ~exists THEN [w EXCEPT !.sent = <<"file-deleted", filePath>>]
     ELSE IF dir \in DOMAIN w.directoryWatchers
     THEN [w EXCEPT !.directoryWatchers =
                      MapSet(w.directoryWatchers, dir,
                             [w.directoryWatchers[dir] EXCEPT !.files = @ \cup {filePath}]),
                    !.fileToDirectory = MapSet(w.fileToDirectory, filePath, dir)]
     ELSE IF watchThrows THEN w
     ELSE [w EXCEPT !.watchers = Append(w.watchers, [dir |-> dir, open |-> TRUE]),
                    !.directoryWatchers =
                      MapSet(w.directoryWatchers, dir,
                             [watcher |-> Len(w.watchers) + 1, files |-> {filePath}]),
                    !.fileToDirectory = MapSet(w.fileToDirectory, filePath, dir)]

\* The callback given to fs.watch(dir), for a rename event naming changedPath
onRename(w, dir, changedPath, exists) ==
  IF dir \notin DOMAIN w.directoryWatchers THEN w
  ELSE IF changedPath \notin w.directoryWatchers[dir].files THEN w
  ELSE IF exists THEN w
  ELSE dropFile([w EXCEPT !.sent = <<"file-deleted", changedPath>>,
                          !.fileToDirectory = MapDelete(w.fileToDirectory, changedPath)],
                dir, changedPath)

\* watcher.on("error")
onWatcherError(w, dir) ==
  LET known == dir \in DOMAIN w.directoryWatchers
      affectedFiles == IF known THEN w.directoryWatchers[dir].files ELSE {}
  IN [w EXCEPT !.watchers = IF known THEN close(@, w.directoryWatchers[dir].watcher) ELSE @,
               !.fileToDirectory = [f \in (DOMAIN @) \ affectedFiles |-> @[f]],
               !.directoryWatchers = MapDelete(@, dir),
               !.sent = <<"watcher-error", dir>>]

\* (variant: the last file of a directory leaves its watcher open)
unwatchFileLeavesWatcher(w, filePath) ==
  IF filePath \notin DOMAIN w.fileToDirectory THEN w
  ELSE LET dir == w.fileToDirectory[filePath]
           w1 == [w EXCEPT !.fileToDirectory = MapDelete(@, filePath)]
       IN IF dir \notin DOMAIN w.directoryWatchers THEN w1
          ELSE [w1 EXCEPT !.directoryWatchers =
                  IF w.directoryWatchers[dir].files = {filePath} THEN MapDelete(@, dir)
                  ELSE MapSet(@, dir, [@[dir] EXCEPT !.files = @ \ {filePath}])]

\* ipcMain.on("unwatch-file")
unwatchFile(w, filePath) ==
  IF filePath \notin DOMAIN w.fileToDirectory THEN w
  ELSE LET dir == w.fileToDirectory[filePath]
           w1 == [w EXCEPT !.fileToDirectory = MapDelete(@, filePath)]
       IN IF dir \notin DOMAIN w.directoryWatchers THEN w1
          ELSE dropFile(w1, dir, filePath)

\* ipcMain.on("unwatch-all-files")
unwatchAllFiles(w) ==
  LET entered == {w.directoryWatchers[d].watcher : d \in DOMAIN w.directoryWatchers}
  IN [w EXCEPT !.watchers = [i \in 1..Len(@) |->
                               IF i \in entered THEN [@[i] EXCEPT !.open = FALSE] ELSE @[i]],
               !.directoryWatchers = EmptyMap,
               !.fileToDirectory = EmptyMap]

CommitWatch(w) ==
  /\ directoryWatchers' = w.directoryWatchers
  /\ fileToDirectory' = w.fileToDirectory
  /\ watchers' = w.watchers
  /\ sent' = w.sent
  /\ UNCHANGED <<existing, progVars, histVars, fqVars, storeVars, clientVars,
                 reviewVars, nameVars, thumbVars, backendVars>>

WatchFile ==
  \E filePath \in WatchedPaths, watchThrows \in BOOLEAN :
    /\ Len(watchers) < MaxWatchers
    /\ \E w \in {watchFile(W, filePath, filePath \in existing, watchThrows)} : CommitWatch(w)

UnwatchFile ==
  \E filePath \in WatchedPaths : \E w \in {unwatchFile(W, filePath)} : CommitWatch(w)

UnwatchAllFiles == \E w \in {unwatchAllFiles(W)} : CommitWatch(w)

\* An open watcher reports a rename of a file of its directory.
WatcherRename ==
  \E i \in 1..Len(watchers), changedPath \in WatchedPaths :
    /\ watchers[i].open
    /\ dirname(changedPath) = watchers[i].dir
    /\ \E w \in {onRename(W, watchers[i].dir, changedPath, changedPath \in existing)} :
         CommitWatch(w)

\* An open watcher fails.
WatcherError ==
  \E i \in 1..Len(watchers) :
    /\ watchers[i].open
    /\ \E w \in {onWatcherError(W, watchers[i].dir)} : CommitWatch(w)

\* A file is deleted from the disk, or put (back) on it.
FileChanges ==
  \E filePath \in WatchedPaths :
    /\ existing' = IF filePath \in existing THEN existing \ {filePath}
                   ELSE existing \cup {filePath}
    /\ UNCHANGED <<directoryWatchers, fileToDirectory, watchers, sent, progVars, histVars,
                   fqVars, storeVars, clientVars, reviewVars, nameVars, thumbVars,
                   backendVars>>

NextWatch ==
  \/ WatchFile
  \/ UnwatchFile
  \/ UnwatchAllFiles
  \/ WatcherRename
  \/ WatcherError
  \/ FileChanges

SpecWatch == InitModule /\ [][NextWatch]_vars

\* The directories with an open watcher.
OpenDirs == {watchers[i].dir : i \in {j \in 1..Len(watchers) : watchers[j].open}}

\* C39: a path is in fileToDirectory exactly when it is in the files of the entry of
\* its directory, and a directory has an open watcher exactly when a watched file
\* maps to it.
C39_WatchMapsAgree ==
  /\ \A f \in WatchedPaths :
       f \in DOMAIN fileToDirectory
         <=> /\ dirname(f) \in DOMAIN directoryWatchers
             /\ f \in directoryWatchers[dirname(f)].files
  /\ \A f \in DOMAIN fileToDirectory : fileToDirectory[f] = dirname(f)
  /\ \A d \in DOMAIN directoryWatchers : directoryWatchers[d].files \subseteq WatchedPaths
  /\ \A d \in {dirname(f) : f \in WatchedPaths} :
       d \in OpenDirs <=> \E f \in DOMAIN fileToDirectory : fileToDirectory[f] = d

\* The last watched file of a directory is gone and its watcher closed, while a file
\* of another directory is still watched.
C39_Witness ==
  /\ \E i \in 1..Len(watchers) : ~watchers[i].open /\ watchers[i].dir \notin OpenDirs
  /\ fileToDirectory # EmptyMap
  /\ existing # WatchedPaths

(***************************************************************************)
(* The renderer's ThumbnailCache.  getThumbnail is async: a hit returns at *)
(* once; a miss awaits the fetch and then, in one turn, enforces the limit *)
(* and stores the blob URL.  Calls overlap freely, also for one key.       *)
(***************************************************************************)
maxSize == 2
MaxFetching == 2
MaxOrder == 4

\* The first index of key in order (0: none): this.accessOrder.indexOf(key) + 1
indexOf(order, key) ==
  LET at == {i \in 1..Len(order) : order[i] = key}
  IN IF at = {} THEN 0 ELSE CHOOSE i \in at : \A j \in at : i <= j

\* splice(index, 1)
splice(order, index) == SubSeq(order, 1, index - 1) \o SubSeq(order, index + 1, Len(order))

_updateAccessOrder(order, key) ==
  Append(IF indexOf(order, key) > 0 THEN splice(order, indexOf(order, key)) ELSE order, key)

\* _enforceLimit on the cache t; evicted collects the keys it deletes, in order
RECURSIVE _enforceLimit(_)
_enforceLimit(t) ==
  IF Cardinality(t.cache) >= maxSize /\ t.accessOrder # <<>>
  THEN LET oldestKey == Head(t.accessOrder)
           t1 == [t EXCEPT !.accessOrder = Tail(@)]
       IN IF oldestKey \in t.cache
          THEN _enforceLimit([t1 EXCEPT !.cache = @ \ {oldestKey},
                                        !.evicted = Append(@, oldestKey)])
          ELSE _enforceLimit(t1)
  ELSE t

\* getThumbnail after the fetch: _enforceLimit(), cache.set(key), accessOrder.push(key)
store(t, key) ==
  LET t1 == _enforceLimit(t)
  IN [t1 EXCEPT !.cache = @ \cup {key}, !.accessOrder = Append(@, key)]

Thumbs == [cache |-> cache, accessOrder |-> accessOrder, evicted |-> <<>>]

\* The recency list with key used last.
Used(order, key) == Append(SelectSeq(order, LAMBDA k : k # key), key)

\* getThumbnail(key) up to its return or its await
GetThumbnail ==
  \E key \in Keys :
    /\ IF key \in cache
       THEN /\ accessOrder' = _updateAccessOrder(accessOrder, key)
            /\ recency' = Used(recency, key)
            /\ UNCHANGED fetching
       ELSE /\ fetching[key] + 1 <= MaxFetching
            /\ fetching' = [fetching EXCEPT ![key] = @ + 1]
            /\ UNCHANGED <<accessOrder, recency>>
    /\ UNCHANGED <<cache, lastEvicted, progVars, histVars, fqVars, storeVars, clientVars,
                   reviewVars, nameVars, watchVars, backendVars>>

\* The fetch of a pending call answers; getThumbnail runs on to its end.
FetchSettles ==
  \E key \in Keys, ok \in BOOLEAN :
    /\ fetching[key] > 0
    /\ fetching' = [fetching EXCEPT ![key] = @ - 1]
    /\ IF ok
       THEN LET t == store(Thumbs, key)
            IN /\ Len(t.accessOrder) <= MaxOrder
               /\ cache' = t.cache
               /\ accessOrder' = t.accessOrder
               /\ recency' = Used(SelectSeq(recency, LAMBDA k : k \in t.cache), key)
               /\ lastEvicted' = IF t.evicted = <<>> THEN lastEvicted
                                 ELSE <<t.evicted[Len(t.evicted)], Head(recency)>>
       ELSE UNCHANGED <<cache, accessOrder, recency, lastEvicted>>
    /\ UNCHANGED <<progVars, histVars, fqVars, storeVars, clientVars,
                   reviewVars, nameVars, watchVars, backendVars>>

\* clear()
ClearThumbnails ==
  /\ cache # {}
  /\ cache' = {}
  /\ accessOrder' = <<>>
  /\ recency' = <<>>
  /\ UNCHANGED <<fetching, lastEvicted, progVars, histVars, fqVars, storeVars, clientVars,
                 reviewVars, nameVars, watchVars, backendVars>>

NextThumbnails ==
  \/ GetThumbnail
  \/ FetchSettles
  \/ ClearThumbnails

SpecThumbnails == InitModule /\ [][NextThumbnails]_vars

\* C32: the entry evicted last was, when it was evicted, the least recently used
\* (inserted or hit) of the cached entries.
C32_EvictsLeastRecentlyUsed == lastEvicted # <<>> => lastEvicted[1] = lastEvicted[2]

(***************************************************************************)
(* The main process's BackendService.  start() spawns the backend and      *)
(* awaits waitForReady(), which sleeps, then polls /health up to           *)
(* maxRetries times with a sleep between polls.  A child starts, may come  *)
(* to serve the port, and exits at any time; a poll is answered ok only by *)
(* a child serving the port.  Calls of start() overlap freely.             *)
(***************************************************************************)
maxRetries == 30
MaxCalls == 2
MaxChildren == 2

\* The child serving the port (NoChild: none); one port, one server.
Serving ==
  IF \E pid \in 1..Len(children) : children[pid] = "serving"
  THEN CHOOSE pid \in 1..Len(children) : children[pid] = "serving"
  ELSE NoChild

CommitBackend(p, exited, kids, cs) ==
  /\ process' = p
  /\ childExited' = exited
  /\ children' = kids
  /\ calls' = cs
  /\ UNCHANGED <<progVars, histVars, fqVars, storeVars, clientVars,
                 reviewVars, nameVars, watchVars, thumbVars>>

\* start() up to its return or to the first await of waitForReady;
\* configThrows: getBackendConfig() throws
start(configThrows) ==
  IF process # NoChild
  THEN [process |-> process, childExited |-> childExited, children |-> children,
        call |-> [pc |-> "resolved", i |-> 0, pid |-> process, by |-> NoChild]]
  ELSE IF configThrows
  THEN [process |-> process, childExited |-> FALSE, children |-> children,
        call |-> [pc |-> "rejected", i |-> 0, pid |-> NoChild, by |-> NoChild]]
  ELSE [process |-> Len(children) + 1, childExited |-> FALSE,
        children |-> Append(children, "starting"),
        call |-> [pc |-> "delay", i |-> 0, pid |-> Len(children) + 1, by |-> NoChild]]

\* waitForReady at the top of its loop with counter i: the for condition, the
\* childExited check, then checkHealth()
loopTop(call, i) ==
  IF i >= maxRetries THEN [call EXCEPT !.pc = "rejected", !.i = i]
  ELSE IF childExited THEN [call EXCEPT !.pc = "rejected", !.i = i]
  ELSE [call EXCEPT !.pc = "health", !.i = i]

\* waitForReady when checkHealth() has resolved to isHealthy, answered by child by
afterHealth(call, isHealthy, by) ==
  IF isHealthy THEN [call EXCEPT !.pc = "resolved", !.by = by]
  ELSE [call EXCEPT !.pc = "sleep"]

Start ==
  \E configThrows \in BOOLEAN :
    /\ Len(calls) < MaxCalls
    /\ Len(children) < MaxChildren
    /\ \E s \in {start(configThrows)} :
         CommitBackend(s.process, s.childExited, s.children, Append(calls, s.call))

\* The sleep of a call ends: the initial 2 s, or the retryDelay after a poll.
SleepEnds ==
  \E c \in 1..Len(calls) :
    /\ calls[c].pc \in {"delay", "sleep"}
    /\ LET i == IF calls[c].pc = "sleep" THEN calls[c].i + 1 ELSE calls[c].i
       IN CommitBackend(process, childExited, children,
                        [calls EXCEPT ![c] = loopTop(calls[c], i)])

\* The /health request of a call is answered, fails or times out.
HealthAnswers ==
  \E c \in 1..Len(calls), isHealthy \in BOOLEAN :
    /\ calls[c].pc = "health"
    /\ isHealthy => Serving # NoChild
    /\ CommitBackend(process, childExited, children,
                     [calls EXCEPT ![c] = afterHealth(calls[c], isHealthy, Serving)])

\* A child has loaded and listens on the port.
ChildServes ==
  \E pid \in 1..Len(children) :
    /\ children[pid] = "starting"
    /\ Serving = NoChild
    /\ CommitBackend(process, childExited, [children EXCEPT ![pid] = "serving"], calls)

\* A child exits: its 'exit' handler runs.
ChildExits ==
  \E pid \in 1..Len(children) :
    /\ children[pid] # "exited"
    /\ CommitBackend(NoChild, TRUE, [children EXCEPT ![pid] = "exited"], calls)

NextBackend ==
  \/ Start
  \/ SleepEnds
  \/ HealthAnswers
  \/ ChildServes
  \/ ChildExits

SpecBackend == InitModule /\ [][NextBackend]_vars

\* C33: a call of start() has resolved only after a /health poll of its own was
\* answered ok by the child it is responsible for; no call is still waiting after
\* maxRetries polls.
C33_ResolvesOnlyWhenHealthy ==
  \A c \in 1..Len(calls) :
    /\ calls[c].pc = "resolved" => (calls[c].pid # NoChild /\ calls[c].by = calls[c].pid)
    /\ calls[c].pc \in {"health", "sleep"} => calls[c].i < maxRetries

====
